---- MODULE Spec2Model ----
(***************************************************************************)
(* World-state aggregation and resumable streaming of opencode-vibe.       *)
(*                                                                         *)
(*   Part 1  World Store          (packages/core/src/world/atoms.ts; the   *)
(*           file is not among the sources, only its tests and callers     *)
(*           are, so the store is modelled from its specification)         *)
(*   Part 2  Resumable cursor stream: catchUpEvents, tailEvents,           *)
(*           resumeEvents (packages/core/src/world/stream.ts)              *)
(*   Part 3  WorldSSE: discovery loop and per-port connection fibers       *)
(*           (packages/core/src/world/sse.ts)                              *)
(*                                                                         *)
(* Each part has its own specification over the shared variables; the      *)
(* variables of the other parts stay at their initial values.              *)
(***************************************************************************)
EXTENDS Integers, Sequences, FiniteSets, TLC

VARIABLES
    \* ---- Part 1: World Store
    store,          \* WorldStore.data: sessions, messages, parts, status, connectionStatus
    listeners,      \* the callbacks currently subscribed
    notifyCount,    \* per callback: how often it has been invoked
    observed,       \* per callback: the WorldState of its last invocation
    nCalls,         \* number of mutating store calls made so far (history, bounds the run)
    history,        \* history: per id the payload most recently applied, and what has happened
    \* ---- Part 2: resumeEvents
    rpc,            \* where the resumed stream is: "catchUp", "tail", "live"
    savedOffset,    \* the offset resumeEvents was called with (<<>>: none)
    emitted,        \* the WorldEvents the stream has emitted, in order
    offsetCounter,  \* tailEvents' offsetCounter
    liveSeen,       \* number of live events delivered by the SSE subscription so far
    response,       \* what the latest catchUpEvents call returned
    tailFrom,       \* the offset tailEvents was called with
    tailed,         \* the events tailEvents has emitted
    subscribed,     \* tailEvents' onEvent subscription is in place
    \* ---- Part 3: WorldSSE
    serverUrl,        \* config.serverUrl as its port (0: none, discovery is used)
    running,          \* WorldSSE.running
    discoveryFiber,   \* WorldSSE.discoveryFiber holds a live discovery loop
    connectionFibers, \* keys of WorldSSE.connectionFibers
    connectedPorts,   \* WorldSSE.connectedPorts
    fiber,            \* per port, where the connection task forked for it is
    interrupted,      \* ports whose task has an interrupt signal queued
    backend,          \* per port, the backend's sessions and which are busy
    called,           \* the method of WorldSSE called last: "none", "start", "start again", "stop" (ghost)
    \* ---- Part 4: the retry loop of connectToServer
    maxReconnectAttempts, \* config.maxReconnectAttempts
    autoReconnect,    \* config.autoReconnect
    attempts,         \* connectToServer's attempts
    retryPhase,       \* "attempt", "streaming", "done"
    retryLog,         \* the sleeps of the loop in ms, with 0 for each connect
    \* ---- Part 5: createMergedWorldStream
    probe,            \* per source, the outcome of its available() ("pending": none yet)
    source,           \* per source, where its stream() is
    sent,             \* per source, the number of events it has emitted
    merged,           \* the events the merged stream has emitted, in order
    merge,            \* where the merged stream is
    \* ---- Part 6: a durable-log event source (swarm-db)
    log,              \* the sequence numbers of the rows of the events table
    initialized,      \* the source's initialized flag
    lastSequence,     \* the source's cursor
    logEmitted,       \* the sequence numbers of the rows the source has emitted
    firstReadAt,      \* number of rows the log held at the first poll (ghost)
    polledAt,         \* number of rows the log held at the latest poll (ghost)
    \* ---- Part 7: one event through a router
    routedBy,         \* the router the latest event went through ("none": no event yet)
    routedEvent,      \* that event
    storeBefore,      \* the store before that event
    routedCalls,      \* the store calls the router made for it, in order
    \* ---- Part 8: the cursor stores
    cursorRows,       \* the rows of the cursors table, in insertion order
    cursorFile,       \* the content of the cursor file (NoOffset: no file)
    latestSaved,      \* per project key, the cursor saved last since its last delete (ghost)
    lastOp,           \* the latest cursor operation and what its caller got
    prevOp,           \* the cursor operation before it
    nCursorOps,       \* cursor operations so far
    \* ---- Part 9: createWorldStream
    bootstrap,        \* where bootstrap() is: "none", "import", "fetch", "done", "failed"
    sseStarted,       \* sse.start() was called and sse.stop() was not called since
    disposed,         \* dispose() has returned (ghost)
    iterator,         \* where the async iterator is: "new", "first", "waiting", "yield", "done"
    queue,            \* the iterator's queue
    yielded,          \* the states the iterator has yielded, in order
    notifications,    \* the states the store has notified since the first yield (ghost)
    \* ---- Part 10: the watch command
    watching,         \* where the watch process is: "stopped", "running", "saving"
    runs,             \* how often the command has been started
    handled,          \* number of events of the running stream the command has handled
    written,          \* the events written to the output, over all runs (ghost)
    occurredWhileStopped, \* the live events that occurred while no watch process ran (ghost)
    \* ---- Part 11: promiseAllSettledLimit
    tasks,            \* per task, how its promise settles: a server's port, "null", "reject"
    limit,            \* the limit
    index,            \* the number of tasks taken so far
    worker,           \* per worker, the index of the task it awaits (0: it has left its loop)
    taskCalls,        \* per task, how often it was called
    settled,          \* the indexes of the tasks whose promise has settled
    resultsArray,     \* the results array, by index ("hole": never assigned)
    returned,         \* what discoverLocalServers returned (<<"pending">>: not yet)
    \* ---- Part 12: the useMessages hook
    hookMessages,     \* the hook store's messages: per session id, an array of messages
    delivered,        \* per message id and part id, the payload last delivered for the hook's session ("none": never)
    hookEvent,        \* the event the hook's subscriptions received last
    \* ---- Part 13: the servers atoms of the web app
    serversResult,    \* the Result held by serversAtom: its _tag and, for Success, its value
    currentServer,    \* the value of currentServerAtom
    discovered        \* what discovery.discover() returned on the last poll ("failed": it did not return)

storeAux == <<listeners, notifyCount, observed, nCalls, history>>
storeVars == <<store, listeners, notifyCount, observed, nCalls, history>>
resumeVars == <<rpc, savedOffset, emitted, offsetCounter, liveSeen,
                response, tailFrom, tailed, subscribed>>

sseVars == <<serverUrl, running, discoveryFiber, connectionFibers, connectedPorts,
             fiber, interrupted, backend, called>>

retryVars == <<maxReconnectAttempts, autoReconnect, attempts, retryPhase, retryLog>>

mergeVars == <<probe, source, sent, merged, merge>>
logVars == <<log, initialized, lastSequence, logEmitted, firstReadAt, polledAt>>
routeVars == <<routedBy, routedEvent, storeBefore, routedCalls>>
cursorVars == <<cursorRows, cursorFile, latestSaved, lastOp, prevOp, nCursorOps>>
streamVars == <<bootstrap, sseStarted, disposed, iterator, queue, yielded, notifications>>
watchVars == <<watching, runs, handled, written, occurredWhileStopped>>
poolVars == <<tasks, limit, index, worker, taskCalls, settled, resultsArray, returned>>
hookVars == <<hookMessages, delivered, hookEvent>>
atomVars == <<serversResult, currentServer, discovered>>

\* What the actions of one part leave alone.
notStore == <<resumeVars, sseVars, retryVars, mergeVars, logVars, routeVars, cursorVars, streamVars, watchVars, poolVars, hookVars, atomVars>>
notResume == <<sseVars, retryVars, mergeVars, logVars, routeVars, cursorVars, streamVars, watchVars, poolVars, hookVars, atomVars>>
notSse == <<resumeVars, retryVars, mergeVars, logVars, routeVars, cursorVars, streamVars, watchVars, poolVars, hookVars, atomVars>>
notRetry == <<storeVars, resumeVars, sseVars, mergeVars, logVars, routeVars, cursorVars, streamVars, watchVars, poolVars, hookVars, atomVars>>
notMerge == <<resumeVars, sseVars, retryVars, logVars, routeVars, cursorVars, streamVars, watchVars, poolVars, hookVars, atomVars>>
notLog == <<storeVars, resumeVars, sseVars, retryVars, mergeVars, routeVars, cursorVars, streamVars, watchVars, poolVars, hookVars, atomVars>>
notRoute == <<resumeVars, sseVars, retryVars, mergeVars, logVars, cursorVars, streamVars, watchVars, poolVars, hookVars, atomVars>>

notCursor == <<storeVars, resumeVars, sseVars, retryVars, mergeVars, logVars, routeVars, streamVars, watchVars, poolVars, hookVars, atomVars>>

notStream == <<resumeVars, sseVars, retryVars, mergeVars, logVars, routeVars, cursorVars, watchVars, poolVars, hookVars, atomVars>>

notWatch == <<storeVars, resumeVars, sseVars, retryVars, mergeVars, logVars, routeVars, cursorVars, streamVars, poolVars, hookVars, atomVars>>

notPool == <<storeVars, resumeVars, sseVars, retryVars, mergeVars, logVars, routeVars, cursorVars, streamVars, watchVars, hookVars, atomVars>>

notHook == <<storeVars, resumeVars, sseVars, retryVars, mergeVars, logVars, routeVars, cursorVars, streamVars, watchVars, poolVars, atomVars>>

notAtom == <<storeVars, resumeVars, sseVars, retryVars, mergeVars, logVars, routeVars, cursorVars, streamVars, watchVars, poolVars, hookVars>>

vars == <<storeVars, resumeVars, sseVars, retryVars, mergeVars, logVars, routeVars, cursorVars, streamVars, watchVars, poolVars, hookVars, atomVars>>

Sources == {1, 2}

Ports == {1, 2}

\* The parts a specification does not run stay as constructed.
ResumeIdle ==
    /\ rpc = "idle"
    /\ savedOffset = <<>>
    /\ emitted = <<>>
    /\ offsetCounter = <<0>>
    /\ liveSeen = 0
    /\ response = [events |-> <<>>, nextOffset |-> <<>>, upToDate |-> FALSE]
    /\ tailFrom = <<>>
    /\ tailed = <<>>
    /\ subscribed = FALSE

SseIdle ==
    /\ serverUrl = 0
    /\ running = FALSE
    /\ discoveryFiber = FALSE
    /\ connectionFibers = {}
    /\ connectedPorts = {}
    /\ fiber = [p \in Ports |-> "none"]
    /\ interrupted = {}
    /\ backend = [p \in Ports |-> [sessions |-> {}, busy |-> {}]]
    /\ called = "none"

RetryIdle ==
    /\ maxReconnectAttempts = 0
    /\ autoReconnect = TRUE
    /\ attempts = 0
    /\ retryPhase = "done"
    /\ retryLog = <<>>

MergeIdle ==
    /\ probe = [s \in Sources |-> "pending"]
    /\ source = [s \in Sources |-> "idle"]
    /\ sent = [s \in Sources |-> 0]
    /\ merged = <<>>
    /\ merge = "idle"

LogIdle ==
    /\ log = <<>>
    /\ initialized = FALSE
    /\ lastSequence = 0
    /\ logEmitted = <<>>
    /\ firstReadAt = 0
    /\ polledAt = 0

RouteIdle ==
    /\ routedBy = "none"
    /\ routedEvent = [type |-> "none"]
    /\ storeBefore = [connectionStatus |-> "none"]
    /\ routedCalls = <<>>

NoCursor == [projectKey |-> 0, offset |-> <<>>, timestamp |-> 0]
NoOp == [op |-> "none", key |-> 0, io |-> "ok", failed |-> FALSE, value |-> NoCursor]

CursorIdle ==
    /\ cursorRows = <<>>
    /\ cursorFile = <<>>
    /\ latestSaved = <<NoCursor, NoCursor>>
    /\ lastOp = NoOp
    /\ prevOp = NoOp
    /\ nCursorOps = 0

StreamIdle ==
    /\ bootstrap = "none"
    /\ sseStarted = FALSE
    /\ disposed = FALSE
    /\ iterator = "new"
    /\ queue = <<>>
    /\ yielded = <<>>
    /\ notifications = <<>>

WatchIdle ==
    /\ watching = "stopped"
    /\ runs = 0
    /\ handled = 0
    /\ written = <<>>
    /\ occurredWhileStopped = {}

PoolIdle ==
    /\ tasks = <<>>
    /\ limit = 0
    /\ index = 0
    /\ worker = <<>>
    /\ taskCalls = <<>>
    /\ settled = {}
    /\ resultsArray = <<>>
    /\ returned = <<"pending">>

HookIdle ==
    /\ hookMessages = <<>>
    /\ delivered = <<>>
    /\ hookEvent = <<>>

AtomIdle ==
    /\ serversResult = <<>>
    /\ currentServer = <<>>
    /\ discovered = <<>>

\* Every part but one is as constructed and is not run.
IdleExcept(part) ==
    /\ IF part = "atom" THEN TRUE ELSE AtomIdle
    /\ IF part = "hook" THEN TRUE ELSE HookIdle
    /\ IF part = "pool" THEN TRUE ELSE PoolIdle
    /\ IF part = "watch" THEN TRUE ELSE WatchIdle
    /\ IF part = "stream" THEN TRUE ELSE StreamIdle
    /\ IF part = "cursor" THEN TRUE ELSE CursorIdle
    /\ IF part = "log" THEN TRUE ELSE LogIdle
    /\ IF part = "route" THEN TRUE ELSE RouteIdle
    /\ IF part = "resume" THEN TRUE ELSE ResumeIdle
    /\ IF part = "sse" THEN TRUE ELSE SseIdle
    /\ IF part = "retry" THEN TRUE ELSE RetryIdle
    /\ IF part = "merge" THEN TRUE ELSE MergeIdle

(***************************************************************************)
(* Part 1. World Store                                                     *)
(***************************************************************************)

\* Bounds of the store runs.
MaxCalls == 4          \* mutating calls per run
MaxTime == 2           \* session.time.updated ranges over 1..MaxTime

SessionIds == {1, 2, 3}
MessageIds == {1, 2}
PartIds == {1, 2}
ListenerIds == {1, 2}
Times == 1..MaxTime
Texts == {1, 2}

\* Ids are strings compared lexicographically in the code; the model uses
\* integers with the same total order.  0 is no id (null / undefined).
NoId == 0

Statuses == {"running", "completed", "idle"}
NoStatus == "none"
ConnectionStatuses == {"disconnected", "connecting", "connected", "error"}

\* Session: id, time.updated.
Sessions == [id : SessionIds, updated : Times]

\* Message: id, sessionID, role, time.created, time.completed (0: absent).
\* A message is created before, or after, every session update of the run.
Messages ==
    [id : MessageIds, sessionID : {1, 2}, role : {"user"},
     created : {1}, completed : {0}]
    \cup
    [id : MessageIds, sessionID : {1, 2}, role : {"assistant"},
     created : {MaxTime + 1}, completed : {0, MaxTime + 1}]

\* Part: id, messageID, text.
Parts == [id : PartIds, messageID : MessageIds, text : Texts]

NoEntity == [id |-> NoId]

EmptyStore ==
    [sessions |-> <<>>, messages |-> <<>>, parts |-> <<>>,
     status |-> [s \in SessionIds |-> NoStatus],
     connectionStatus |-> "disconnected"]

\* ---- sorted collections ------------------------------------------------

\* Binary search of an id-sorted array over the inclusive range lo..hi:
\* the index of the entity with this id, or the index to insert it at.
RECURSIVE binarySearch(_, _, _, _)
binarySearch(arr, id, lo, hi) ==
    IF lo > hi THEN [found |-> FALSE, index |-> lo]
    ELSE LET mid == (lo + hi) \div 2 IN
         IF arr[mid].id = id THEN [found |-> TRUE, index |-> mid]
         ELSE IF arr[mid].id < id THEN binarySearch(arr, id, mid + 1, hi)
         ELSE binarySearch(arr, id, lo, mid - 1)

\* A plausible slip: a new entity is pushed at the end instead of spliced in.
upsertAppend(arr, e) ==
    LET r == binarySearch(arr, e.id, 1, Len(arr)) IN
    IF r.found THEN [arr EXCEPT ![r.index] = e] ELSE Append(arr, e)

\* A plausible slip: a re-delivered id is inserted again instead of replaced.
upsertNoReplace(arr, e) ==
    LET r == binarySearch(arr, e.id, 1, Len(arr)) IN
    SubSeq(arr, 1, r.index - 1) \o <<e>> \o SubSeq(arr, r.index, Len(arr))

\* upsert: replace if found, else insert maintaining the sort order.
upsert(arr, e) ==
    LET r == binarySearch(arr, e.id, 1, Len(arr)) IN
    IF r.found THEN [arr EXCEPT ![r.index] = e]
    ELSE SubSeq(arr, 1, r.index - 1) \o <<e>> \o SubSeq(arr, r.index, Len(arr))

\* Bulk replace sorts its argument by id (insertion sort; ids are distinct).
RECURSIVE sortById(_)
sortById(arr) ==
    IF arr = <<>> THEN <<>>
    ELSE LET rest == sortById(Tail(arr))
             e == Head(arr)
             k == Cardinality({i \in 1..Len(rest) : rest[i].id < e.id})
         IN SubSeq(rest, 1, k) \o <<e>> \o SubSeq(rest, k + 1, Len(rest))

\* ---- mutators (the new WorldStore.data) --------------------------------

setSessions(st, list) == [st EXCEPT !.sessions = sortById(list)]
setMessages(st, list) == [st EXCEPT !.messages = sortById(list)]
setParts(st, list) == [st EXCEPT !.parts = sortById(list)]
setStatus(st, map) == [st EXCEPT !.status = map]
setConnectionStatusKeeps(st, cs) == st
setConnectionStatus(st, cs) == [st EXCEPT !.connectionStatus = cs]
upsertSession(st, s) == [st EXCEPT !.sessions = upsert(st.sessions, s)]
upsertMessage(st, m) == [st EXCEPT !.messages = upsert(st.messages, m)]
upsertPart(st, p) == [st EXCEPT !.parts = upsert(st.parts, p)]
updateStatus(st, id, s) == [st EXCEPT !.status[id] = s]

\* ---- derived world state -----------------------------------------------

MapSeq(Op(_), seq) == [i \in 1..Len(seq) |-> Op(seq[i])]

SetMax(S) == CHOOSE x \in S : \A y \in S : y <= x

\* A plausible slip: the parts are not filtered by their messageID.
enrichMessageAllParts(st, m) ==
    [id |-> m.id, sessionID |-> m.sessionID, role |-> m.role,
     created |-> m.created, completed |-> m.completed,
     parts |-> st.parts,
     isStreaming |-> (m.role = "assistant" /\ m.completed = 0)]

\* A plausible slip: every message without time.completed counts as streaming.
enrichMessageAnyRole(st, m) ==
    [id |-> m.id, sessionID |-> m.sessionID, role |-> m.role,
     created |-> m.created, completed |-> m.completed,
     parts |-> SelectSeq(st.parts, LAMBDA p : p.messageID = m.id),
     isStreaming |-> (m.completed = 0)]

enrichMessage(st, m) ==
    [id |-> m.id, sessionID |-> m.sessionID, role |-> m.role,
     created |-> m.created, completed |-> m.completed,
     parts |-> SelectSeq(st.parts, LAMBDA p : p.messageID = m.id),
     isStreaming |-> (m.role = "assistant" /\ m.completed = 0)]

\* A plausible slip: the messages do not count as activity.
enrichSessionOwnTime(st, s) ==
    LET status == IF st.status[s.id] = NoStatus THEN "completed" ELSE st.status[s.id]
        msgs == SelectSeq(st.messages, LAMBDA m : m.sessionID = s.id)
    IN [id |-> s.id, updated |-> s.updated,
        status |-> status,
        messages |-> MapSeq(LAMBDA m : enrichMessage(st, m), msgs),
        isActive |-> (status = "running"),
        lastActivity |-> s.updated]

enrichSession(st, s) ==
    LET status == IF st.status[s.id] = NoStatus THEN "completed" ELSE st.status[s.id]
        msgs == SelectSeq(st.messages, LAMBDA m : m.sessionID = s.id)
    IN [id |-> s.id, updated |-> s.updated,
        status |-> status,
        messages |-> MapSeq(LAMBDA m : enrichMessage(st, m), msgs),
        isActive |-> (status = "running"),
        lastActivity |-> SetMax({s.updated} \cup {msgs[i].created : i \in 1..Len(msgs)})]

\* Most recent activity first, ties by id ascending.
moreRecent(a, b) ==
    \/ a.lastActivity > b.lastActivity
    \/ a.lastActivity = b.lastActivity /\ a.id < b.id

RECURSIVE sortByRecency(_)
sortByRecency(arr) ==
    IF arr = <<>> THEN <<>>
    ELSE LET rest == sortByRecency(Tail(arr))
             e == Head(arr)
             k == Cardinality({i \in 1..Len(rest) : moreRecent(rest[i], e)})
         IN SubSeq(rest, 1, k) \o <<e>> \o SubSeq(rest, k + 1, Len(rest))

\* A plausible slip: the active session is the first active one by id.
getStateActiveById(st) ==
    LET unsorted == MapSeq(LAMBDA s : enrichSession(st, s), st.sessions)
        active == SelectSeq(unsorted, LAMBDA s : s.isActive)
    IN [sessions |-> sortByRecency(unsorted),
        activeSessionCount |-> Len(active),
        activeSession |-> IF active = <<>> THEN NoId ELSE active[1].id,
        connectionStatus |-> st.connectionStatus]

\* getState(): the derived WorldState (lastUpdated, a wall-clock stamp, aside).
getState(st) ==
    LET enriched == sortByRecency(MapSeq(LAMBDA s : enrichSession(st, s), st.sessions))
        active == SelectSeq(enriched, LAMBDA s : s.isActive)
    IN [sessions |-> enriched,
        activeSessionCount |-> Len(active),
        activeSession |-> IF active = <<>> THEN NoId ELSE active[1].id,
        connectionStatus |-> st.connectionStatus]

NoState == [sessions |-> <<>>, activeSessionCount |-> 0, activeSession |-> NoId,
            connectionStatus |-> "unobserved"]

\* ---- subscription ------------------------------------------------------

\* A plausible slip: notification happens only when the derived state changed.
notifyIfChanged(st, l) == l \in listeners /\ getState(st) # getState(store)

\* notify(): is callback l invoked when the store's data has become st?
notified(st, l) == l \in listeners

\* One mutating call: the data becomes st, then every subscribed callback is
\* invoked once, synchronously, with the derived state.
Mutate(st) ==
    /\ nCalls < MaxCalls
    /\ store' = st
    /\ nCalls' = nCalls + 1
    /\ notifyCount' = [l \in ListenerIds |->
                          IF notified(st, l) THEN notifyCount[l] + 1 ELSE notifyCount[l]]
    /\ observed' = [l \in ListenerIds |->
                       IF notified(st, l) THEN getState(st) ELSE observed[l]]
    /\ UNCHANGED <<listeners, notStore>>

Subscribe(l) ==
    /\ l \notin listeners
    /\ listeners' = listeners \cup {l}
    /\ UNCHANGED <<store, notifyCount, observed, nCalls, history, notStore>>

Unsubscribe(l) ==
    /\ l \in listeners
    /\ listeners' = listeners \ {l}
    /\ UNCHANGED <<store, notifyCount, observed, nCalls, history, notStore>>

\* ---- store actions -----------------------------------------------------

\* The history map after a bulk replace: exactly the entities of the list.
asLatest(ids, list) ==
    [i \in ids |-> IF \E k \in 1..Len(list) : list[k].id = i
                   THEN list[CHOOSE k \in 1..Len(list) : list[k].id = i]
                   ELSE NoEntity]

\* All orderings of all subsets of a set of entities with distinct ids.
Orderings(S) ==
    {q \in UNION {[1..n -> S] : n \in 0..Cardinality(S)} :
        \A i, j \in 1..Len(q) : i # j => q[i].id # q[j].id}

BulkSessions == {[id |-> 1, updated |-> 1], [id |-> 2, updated |-> MaxTime]}
BulkMessages ==
    {[id |-> 1, sessionID |-> 1, role |-> "user", created |-> 1, completed |-> 0],
     [id |-> 2, sessionID |-> 1, role |-> "assistant", created |-> MaxTime + 1,
      completed |-> 0]}
BulkParts == {[id |-> 1, messageID |-> 1, text |-> 1], [id |-> 2, messageID |-> 1, text |-> 2]}
BulkStatus ==
    {[s \in SessionIds |-> NoStatus],
     [s \in SessionIds |-> IF s = 1 THEN "running" ELSE NoStatus]}

has(arr, id) == \E k \in 1..Len(arr) : arr[k].id = id

\* History of an upsert: the payload is the latest of its id; an upsert that
\* hits a stored id with another payload is a replacement; a message stored
\* without its session, or a part without its message, is an orphan arrival.
replaces(arr, e) == \E k \in 1..Len(arr) : arr[k].id = e.id /\ arr[k] # e

SetSessions(list) ==
    /\ Mutate(setSessions(store, list))
    /\ history' = [history EXCEPT !.sessions = asLatest(SessionIds, list)]

SetMessages(list) ==
    /\ Mutate(setMessages(store, list))
    /\ history' = [history EXCEPT !.messages = asLatest(MessageIds, list)]

SetParts(list) ==
    /\ Mutate(setParts(store, list))
    /\ history' = [history EXCEPT !.parts = asLatest(PartIds, list)]

SetStatus(map) ==
    /\ Mutate(setStatus(store, map))
    /\ UNCHANGED history

SetConnectionStatus(cs) ==
    /\ Mutate(setConnectionStatus(store, cs))
    /\ UNCHANGED history

UpsertSession(s) ==
    /\ Mutate(upsertSession(store, s))
    /\ history' = [history EXCEPT !.sessions[s.id] = s,
                                  !.replaced = @ \/ replaces(store.sessions, s)]

UpsertMessage(m) ==
    /\ Mutate(upsertMessage(store, m))
    /\ history' = [history EXCEPT !.messages[m.id] = m,
                                  !.replaced = @ \/ replaces(store.messages, m),
                                  !.orphaned = @ \/ ~has(store.sessions, m.sessionID)]

UpsertPart(p) ==
    /\ Mutate(upsertPart(store, p))
    /\ history' = [history EXCEPT !.parts[p.id] = p,
                                  !.replaced = @ \/ replaces(store.parts, p),
                                  !.orphaned = @ \/ ~has(store.messages, p.messageID)]

UpdateStatus(id, s) ==
    /\ Mutate(updateStatus(store, id, s))
    /\ UNCHANGED history

StoreStart ==
    /\ store = EmptyStore
    /\ listeners = {}
    /\ notifyCount = [l \in ListenerIds |-> 0]
    /\ observed = [l \in ListenerIds |-> NoState]
    /\ nCalls = 0
    /\ history = [sessions |-> [i \in SessionIds |-> NoEntity],
                  messages |-> [i \in MessageIds |-> NoEntity],
                  parts |-> [i \in PartIds |-> NoEntity],
                  replaced |-> FALSE, orphaned |-> FALSE]

StoreInit == StoreStart /\ IdleExcept("store")

\* The entity collections: bulk replaces and upserts of sessions, messages, parts.
StoreNext ==
    \/ \E list \in Orderings(BulkSessions) : SetSessions(list)
    \/ \E list \in Orderings(BulkMessages) : SetMessages(list)
    \/ \E list \in Orderings(BulkParts) : SetParts(list)
    \/ \E s \in Sessions : UpsertSession(s)
    \/ \E m \in Messages : UpsertMessage(m)
    \/ \E p \in Parts : UpsertPart(p)

SpecStore == StoreInit /\ [][StoreNext]_vars

\* Subscription: every mutator, on few entities, with callbacks coming and going.
NotifySessions == {[id |-> 1, updated |-> 1]}
NotifyMessages ==
    {[id |-> 1, sessionID |-> 1, role |-> "assistant", created |-> MaxTime + 1,
      completed |-> 0]}
NotifyParts == {[id |-> 1, messageID |-> 1, text |-> 1]}

NotifyNext ==
    \/ \E list \in Orderings(NotifySessions) : SetSessions(list)
    \/ \E list \in Orderings(NotifyMessages) : SetMessages(list)
    \/ \E list \in Orderings(NotifyParts) : SetParts(list)
    \/ \E map \in BulkStatus : SetStatus(map)
    \/ \E cs \in {"connecting", "connected"} : SetConnectionStatus(cs)
    \/ \E s \in NotifySessions : UpsertSession(s)
    \/ \E m \in NotifyMessages : UpsertMessage(m)
    \/ \E p \in NotifyParts : UpsertPart(p)
    \/ \E s \in {"running", "completed"} : UpdateStatus(1, s)
    \/ \E l \in ListenerIds : Subscribe(l)
    \/ \E l \in ListenerIds : Unsubscribe(l)

SpecNotify == StoreInit /\ [][NotifyNext]_vars

(***************************************************************************)
(* Part 1: properties                                                      *)
(***************************************************************************)

\* The entities of a history map, and every order a caller may list them in.
entitiesOf(map) == {map[i] : i \in DOMAIN map} \ {NoEntity}
listingsOf(map) == {q \in Orderings(entitiesOf(map)) : Len(q) = Cardinality(entitiesOf(map))}

\* The store a bulk load of the same final entities builds from empty.
bulkLoaded(qs, qm, qp) == setParts(setMessages(setSessions(EmptyStore, qs), qm), qp)

\* C3. Order independence: whatever order the entities were upserted in, the
\* derived WorldState equals the one a single bulk setSessions / setMessages /
\* setParts of the same final entities yields, in whatever order the bulk
\* call lists them.
C3_OrderIndependence ==
    \A qs \in listingsOf(history.sessions) :
        \A qm \in listingsOf(history.messages) :
            \A qp \in listingsOf(history.parts) :
                getState(store) = getState(bulkLoaded(qs, qm, qp))

\* Three sessions, a message and nothing but upserts (a bulk load holds at most
\* two sessions), so the sessions arrived in each of their orders.
C3_Witness ==
    /\ nCalls = 4
    /\ Len(store.sessions) = 3
    /\ Len(store.messages) = 1
    /\ Len(getState(store).sessions[1].messages) = 1

storedAs(arr, id) == arr[CHOOSE k \in 1..Len(arr) : arr[k].id = id]
idsOnce(arr) == \A i, j \in 1..Len(arr) : i # j => arr[i].id # arr[j].id
lastWriteWins(arr, map) ==
    /\ idsOnce(arr)
    /\ \A i \in DOMAIN map :
          IF map[i] = NoEntity THEN ~has(arr, i)
          ELSE has(arr, i) /\ storedAs(arr, i) = map[i]

\* C4. Last-write-wins: each id occurs at most once in its collection, and the
\* stored entity is, field for field, the payload most recently applied for
\* that id; an id never applied is not stored.
C4_LastWriteWins ==
    /\ lastWriteWins(store.sessions, history.sessions)
    /\ lastWriteWins(store.messages, history.messages)
    /\ lastWriteWins(store.parts, history.parts)

\* Some upsert has hit a stored id with a different payload, and the part
\* collection was among those revised.
C4_Witness ==
    /\ history.replaced
    /\ Len(store.parts) = 1
    /\ nCalls >= 2
    /\ store.sessions = <<>> /\ store.messages = <<>>

\* Where an id shows up in the enriched view.
messagePlaces(ws, id) ==
    {<<i, j>> \in (1..Len(ws.sessions)) \X (1..Cardinality(MessageIds)) :
        j <= Len(ws.sessions[i].messages) /\ ws.sessions[i].messages[j].id = id}
partPlaces(ws, id) ==
    {<<i, j, k>> \in (1..Len(ws.sessions)) \X (1..Cardinality(MessageIds))
                        \X (1..Cardinality(PartIds)) :
        /\ j <= Len(ws.sessions[i].messages)
        /\ k <= Len(ws.sessions[i].messages[j].parts)
        /\ ws.sessions[i].messages[j].parts[k].id = id}

\* C5. Out-of-order arrival: every message and part applied is retained; a
\* message whose session is absent, and a part whose message (or the message's
\* session) is absent, is in no session's enriched view; with its parents
\* present it is there exactly once, under its own session / message.
C5_OutOfOrderArrival ==
    LET ws == getState(store) IN
    /\ \A id \in MessageIds : history.messages[id] # NoEntity => has(store.messages, id)
    /\ \A id \in PartIds : history.parts[id] # NoEntity => has(store.parts, id)
    /\ \A n \in 1..Len(store.messages) :
          LET m == store.messages[n] IN
          IF has(store.sessions, m.sessionID)
          THEN /\ Cardinality(messagePlaces(ws, m.id)) = 1
               /\ \A pl \in messagePlaces(ws, m.id) :
                     /\ ws.sessions[pl[1]].id = m.sessionID
                     /\ ws.sessions[pl[1]].messages[pl[2]].created = m.created
          ELSE messagePlaces(ws, m.id) = {}
    /\ \A n \in 1..Len(store.parts) :
          LET p == store.parts[n] IN
          IF /\ has(store.messages, p.messageID)
             /\ has(store.sessions, storedAs(store.messages, p.messageID).sessionID)
          THEN /\ Cardinality(partPlaces(ws, p.id)) = 1
               /\ \A pl \in partPlaces(ws, p.id) :
                     /\ ws.sessions[pl[1]].messages[pl[2]].id = p.messageID
                     /\ ws.sessions[pl[1]].messages[pl[2]].parts[pl[3]] = p
          ELSE partPlaces(ws, p.id) = {}

\* An orphan arrived (a part before its message, or a message before its
\* session) and by now part, message and session are all there.
C5_Witness ==
    /\ history.orphaned
    /\ nCalls = 3
    /\ Len(store.parts) = 1 /\ Len(store.messages) = 1 /\ Len(store.sessions) = 1
    /\ partPlaces(getState(store), store.parts[1].id) # {}

\* C6. Every mutating call invokes each callback subscribed at the time of the
\* call exactly once, within the call, with the derived state of the store as
\* the call leaves it (what getState() returns afterwards); a callback that is
\* not subscribed is not invoked.
C6_NotifyOncePerMutation ==
    [][nCalls' = nCalls + 1 =>
         \A l \in ListenerIds :
            IF l \in listeners
            THEN notifyCount'[l] = notifyCount[l] + 1 /\ observed'[l] = getState(store')
            ELSE notifyCount'[l] = notifyCount[l] /\ observed'[l] = observed[l]]_vars

\* Callback 1 was notified of two mutations, callback 2 of the first only,
\* having unsubscribed before the second.
C6_Witness ==
    /\ notifyCount[1] = 2 /\ notifyCount[2] = 1
    /\ 2 \notin listeners /\ 1 \in listeners
    /\ observed[1] = getState(store) /\ observed[2] # getState(store)


\* The enriched messages of a derived state.
messagesOf(ws) ==
    {ws.sessions[i].messages[j] :
        <<i, j>> \in {pl \in (1..Len(ws.sessions)) \X (1..Cardinality(MessageIds)) :
                         pl[2] <= Len(ws.sessions[pl[1]].messages)}}

\* C27. Streaming flag law: every enriched message has isStreaming exactly
\* when its role is assistant and it has no time.completed, by its latest
\* payload: the flag is true from the first upsert of an assistant message
\* and false from the upsert that supplies time.completed.
C27_StreamingFlagLaw ==
    \A m \in messagesOf(getState(store)) :
        /\ m.isStreaming <=> (m.role = "assistant" /\ m.completed = 0)
        /\ m.isStreaming <=> (history.messages[m.id].role = "assistant"
                               /\ history.messages[m.id].completed = 0)

\* An assistant message that has been upserted again, now completed, beside
\* a message that is not streaming because it is a user's.
C27_Witness ==
    /\ history.replaced
    /\ \E m \in messagesOf(getState(store)) :
           m.role = "assistant" /\ m.completed # 0 /\ ~m.isStreaming
    /\ \E m \in messagesOf(getState(store)) : m.role = "user" /\ m.completed = 0
    /\ store.parts = <<>>
    /\ Len(store.sessions) = 1

\* The recency key of a stored session, from the store's collections.
lastActivityOf(st, s) ==
    SetMax({s.updated} \cup {st.messages[i].created :
                                i \in {k \in 1..Len(st.messages) : st.messages[k].sessionID = s.id}})

\* C29. Recency ordering: the sessions of every WorldState are the stored
\* sessions in descending order of max(time.updated, largest time.created of
\* the session's messages), ties in ascending order of id.
C29_RecencyOrdering ==
    LET ws == getState(store) IN
    /\ Len(ws.sessions) = Len(store.sessions)
    /\ \A i \in 1..Len(ws.sessions) : \A j \in 1..Len(ws.sessions) :
           i < j =>
               LET a == storedAs(store.sessions, ws.sessions[i].id)
                   b == storedAs(store.sessions, ws.sessions[j].id)
               IN \/ lastActivityOf(store, a) > lastActivityOf(store, b)
                  \/ /\ lastActivityOf(store, a) = lastActivityOf(store, b)
                     /\ a.id < b.id

\* A session updated earlier comes first because of its message, and two
\* sessions tie.
C29_Witness ==
    LET ws == getState(store) IN
    /\ Len(ws.sessions) = 3
    /\ ws.sessions[1].updated < ws.sessions[2].updated
    /\ ws.sessions[1].messages # <<>>
    /\ ws.sessions[2].lastActivity = ws.sessions[3].lastActivity

\* Sessions and their statuses: upserts, single status updates and bulk
\* status loads.
StatusMaps ==
    {[s \in SessionIds |-> NoStatus],
     [s \in SessionIds |-> IF s \in {1, 2} THEN "running" ELSE NoStatus]}

StatusNext ==
    \/ \E s \in Sessions : UpsertSession(s)
    \/ \E id \in SessionIds, s \in Statuses : UpdateStatus(id, s)
    \/ \E map \in StatusMaps : SetStatus(map)

SpecStatus == StoreInit /\ [][StatusNext]_vars

\* C30. In every WorldState a session's status is its entry of the status
\* map, or completed without one; isActive holds exactly for running;
\* activeSessionCount counts the active sessions; activeSession is the first
\* active session of the recency order, or null without any.
C30_StatusAndActive ==
    LET ws == getState(store)
        active == {i \in 1..Len(ws.sessions) : ws.sessions[i].isActive}
    IN /\ \A i \in 1..Len(ws.sessions) :
              LET e == ws.sessions[i] IN
              /\ e.status = IF store.status[e.id] = NoStatus THEN "completed"
                             ELSE store.status[e.id]
              /\ e.isActive <=> (e.status = "running")
       /\ ws.activeSessionCount = Cardinality(active)
       /\ ws.activeSession =
              IF active = {} THEN NoId
              ELSE ws.sessions[CHOOSE i \in active : \A j \in active : i <= j].id

\* Two active sessions, the more recent of them with the greater id, and a
\* third session without a status entry.
C30_Witness ==
    LET ws == getState(store) IN
    /\ Len(ws.sessions) = 3
    /\ ws.activeSessionCount = 2
    /\ ws.activeSession = 2
    /\ store.status[1] = "running"
    /\ store.status[3] = NoStatus

\* ---- context usage -----------------------------------------------------
\* Token counts are in units of 50 tokens, which leaves every quotient as it
\* is; a percentage is in units of 1/10000 of a percent, so 4% is 40000 and
\* 0.925% is 9250.

\* An optional property of a message.
field(rec, name, default) == IF name \in DOMAIN rec THEN rec[name] ELSE default
None == [x \in {} |-> 0]

\* The tokens and the model of the repository's three context-usage tests.
TokensAll == [input |-> 100, output |-> 10, reasoning |-> 20, cache |-> [read |-> 20, write |-> 10]]
TokensInputAndCacheRead == [input |-> 100, output |-> 10, cache |-> [read |-> 20, write |-> 0]]
TokensRealistic == [input |-> 20, output |-> 1, reasoning |-> 2, cache |-> [read |-> 10, write |-> 4]]
ModelLimits == [context |-> 4000, output |-> 16384]

\* input + output + reasoning + cache.read + cache.write, absent fields as 0.
totalTokens(tokens) ==
    field(tokens, "input", 0) + field(tokens, "output", 0) + field(tokens, "reasoning", 0)
    + field(field(tokens, "cache", None), "read", 0)
    + field(field(tokens, "cache", None), "write", 0)

\* (totalTokens / model.limits.context) * 100
usagePercent(m) == (1000000 * totalTokens(m.tokens)) \div m.limits.context

\* The session's completed assistant messages that carry tokens and a context
\* limit, in stored order.
usageMessages(st, sessionID) ==
    SelectSeq(st.messages, LAMBDA m :
        /\ m.sessionID = sessionID
        /\ m.role = "assistant"
        /\ m.completed # 0
        /\ "tokens" \in DOMAIN m
        /\ "limits" \in DOMAIN m)

\* EnrichedSession.contextUsagePercent, as the repository's tests compute and
\* expect it.
contextUsagePercent(st, sessionID) ==
    LET msgs == usageMessages(st, sessionID)
    IN IF msgs = <<>> THEN 0 ELSE usagePercent(msgs[Len(msgs)])

\* Messages of session 1: message 2 is created, and completed, after message 1.
UsageMessages ==
    {[id |-> i, sessionID |-> 1, role |-> r, created |-> i, completed |-> c * i]
        @@ extra :
        i \in MessageIds, r \in {"user", "assistant"}, c \in {0, 1},
        extra \in {None}
                  \cup {[tokens |-> tk, limits |-> ModelLimits] :
                           tk \in {TokensAll, TokensInputAndCacheRead, TokensRealistic}}}

UsageNext ==
    \/ \E s \in {[id |-> 1, updated |-> 1]} : UpsertSession(s)
    \/ \E m \in UsageMessages : UpsertMessage(m)

SpecUsage == StoreInit /\ [][UsageNext]_vars

\* A percentage rounded to 2 decimals; a value halfway rounds either way in
\* binary floating point.
roundedTo2(x) ==
    IF x % 100 = 50 THEN {x - 50, x + 50}
    ELSE {((x + 50) \div 100) * 100}

\* C28: the contextUsagePercent of a session is 100 * (input + output +
\* reasoning + cache.read + cache.write) / context limit of its most recent
\* completed assistant message, rounded to 2 decimals, absent token fields
\* counting as 0; and 0 without a completed assistant message.
C28_ContextUsage ==
    \A n \in 1..Len(store.sessions) :
        LET id == store.sessions[n].id
            msgs == usageMessages(store, id)
        IN IF msgs = <<>> THEN contextUsagePercent(store, id) = 0
           ELSE contextUsagePercent(store, id) \in roundedTo2(usagePercent(msgs[Len(msgs)]))

(***************************************************************************)
(* Part 2: catchUpEvents, tailEvents, resumeEvents                         *)
(*                                                                         *)
(* An offset is a string of decimal digits, modelled as the sequence of    *)
(* its digits; <<>> is the absent offset (undefined, null and "" are all   *)
(* falsy to the code).  A counter is a JavaScript number, exact far beyond *)
(* ten digits: it is modelled as the sequence of its decimal digits, with  *)
(* no leading zero.  What the backends answer to a catch-up is an input of *)
(* each call: a list of servers, each with its sessions and its status     *)
(* entries.                                                                *)
(***************************************************************************)
MaxLive == 2        \* live events delivered to one tail
MaxSaved == 42      \* largest offset a consumer resumes from

OffsetWidth == 10
NoOffset == <<>>

\* The number n.
RECURSIVE Num(_)
Num(n) == IF n < 10 THEN <<n>> ELSE Append(Num(n \div 10), n % 10)

\* n + 1
RECURSIVE inc(_)
inc(n) ==
    IF Len(n) = 0 THEN <<1>>
    ELSE IF n[Len(n)] < 9 THEN [n EXCEPT ![Len(n)] = @ + 1]
    ELSE Append(inc(SubSeq(n, 1, Len(n) - 1)), 0)

\* n + k
RECURSIVE plus(_, _)
plus(n, k) == IF k = 0 THEN n ELSE plus(inc(n), k - 1)

\* String(n): the decimal digits of the number.
String(n) == n

padStart(s, width, c) ==
    IF Len(s) >= width THEN s ELSE [i \in 1..(width - Len(s)) |-> c] \o s

\* Number.parseInt(s, 10) of a string of digits: its value, so without the
\* leading zeros.
RECURSIVE parseInt(_)
parseInt(s) ==
    IF Len(s) <= 1 THEN s
    ELSE IF Head(s) = 0 THEN parseInt(Tail(s))
    ELSE s

formatOffset(n) == padStart(String(n), OffsetWidth, 0)

\* offset ? Number.parseInt(offset, 10) : 0
startCounter(offset) == IF offset # NoOffset THEN parseInt(offset) ELSE Num(0)

\* a || b
orElse(a, b) == IF a # NoOffset THEN a ELSE b

\* The largest offset of ten digits.
LargestOffset == [i \in 1..OffsetWidth |-> 9]

SavedOffsets == {NoOffset, LargestOffset} \cup {formatOffset(Num(n)) : n \in {1, MaxSaved}}

\* What the discovered servers answer: their session list and status map.
ServerOne == [port |-> 1, sessions |-> <<1>>, status |-> <<>>]
ServerOneLater == [port |-> 1, sessions |-> <<1, 2>>, status |-> <<<<2, "running">>>>]
ServerTwo == [port |-> 2, sessions |-> <<3>>, status |-> <<<<3, "running">>>>]
Snapshots ==
    {<<>>, <<ServerOne>>, <<ServerOneLater>>, <<ServerOne, ServerTwo>>,
     <<ServerOneLater, ServerTwo>>}

\* The synthetic events of one server, before offsets are assigned.
serverEvents(server) ==
    [i \in 1..Len(server.sessions) |->
        [type |-> <<"session", "created">>,
         payload |-> [id |-> server.sessions[i], projectKey |-> server.port]]]
    \o
    [i \in 1..Len(server.status) |->
        [type |-> <<"session", "updated">>,
         payload |-> [id |-> server.status[i][1], status |-> server.status[i][2]]]]

RECURSIVE allServerEvents(_)
allServerEvents(servers) ==
    IF Len(servers) = 0 THEN <<>>
    ELSE serverEvents(Head(servers)) \o allServerEvents(Tail(servers))

nextOffsetOf(events) ==
    IF Len(events) > 0 THEN events[Len(events)].offset ELSE NoOffset

catchUpEvents(offset, servers) ==
    IF Len(servers) = 0
    THEN [events |-> <<>>, nextOffset |-> NoOffset, upToDate |-> TRUE]
    ELSE LET raw == allServerEvents(servers)
             events == [i \in 1..Len(raw) |->
                 [type |-> raw[i].type,
                  offset |-> formatOffset(plus(startCounter(offset), i)),
                  upToDate |-> (i = Len(raw)),
                  payload |-> raw[i].payload]]
         IN [events |-> events, nextOffset |-> nextOffsetOf(events),
             upToDate |-> TRUE]

\* Live event types as <<namespace, rest>>; tailEvents keeps three namespaces.
LiveTypes == {<<"session", "status">>, <<"message", "part.updated">>,
              <<"server", "heartbeat">>}
recognized(type) == type[1] \in {"session", "message", "part"}

ResumeInit ==
    /\ StoreStart
    /\ IdleExcept("resume")
    /\ rpc = "catchUp"
    /\ savedOffset \in SavedOffsets
    /\ emitted = <<>>
    /\ offsetCounter = <<0>>
    /\ liveSeen = 0
    /\ response = [events |-> <<>>, nextOffset |-> <<>>, upToDate |-> FALSE]
    /\ tailFrom = <<>>
    /\ tailed = <<>>
    /\ subscribed = FALSE

\* Phase 1 of resumeEvents: one catchUpEvents call, its events emitted.
ResumeCatchUp(servers) ==
    /\ rpc = "catchUp"
    /\ response' = catchUpEvents(savedOffset, servers)
    /\ emitted' = response'.events
    /\ rpc' = "tail"
    /\ UNCHANGED <<savedOffset, offsetCounter, liveSeen, tailFrom, tailed, subscribed,
                   storeVars, notResume>>

\* Phase 2 of resumeEvents: a second catchUpEvents call, whose nextOffset
\* (or savedOffset) starts tailEvents.
ResumeTail(servers) ==
    /\ rpc = "tail"
    /\ response' = catchUpEvents(savedOffset, servers)
    /\ tailFrom' = orElse(response'.nextOffset, savedOffset)
    /\ offsetCounter' = startCounter(tailFrom')
    /\ subscribed' = TRUE
    /\ rpc' = "live"
    /\ UNCHANGED <<savedOffset, emitted, liveSeen, tailed, storeVars, notResume>>

\* tailEvents' onEvent callback, which MultiServerSSE invokes for every
\* event while the subscription is in place.
TailEvent(type) ==
    /\ subscribed
    /\ liveSeen < MaxLive
    /\ liveSeen' = liveSeen + 1
    /\ IF recognized(type)
       THEN LET worldEvent == [type |-> type, offset |-> formatOffset(inc(offsetCounter)),
                               upToDate |-> FALSE, payload |-> [id |-> liveSeen + 1]]
            IN /\ offsetCounter' = inc(offsetCounter)
               /\ emitted' = Append(emitted, worldEvent)
               /\ tailed' = Append(tailed, worldEvent)
       ELSE UNCHANGED <<offsetCounter, emitted, tailed>>
    /\ UNCHANGED <<rpc, savedOffset, response, tailFrom, subscribed, storeVars, notResume>>

\* A plausible slip: the cleanup stops the connections and keeps the callback.
cleanupKeepsCallback(s) == s

\* tailEvents' cleanup: unsubscribe(); sse.stop()
cleanup(s) == FALSE

\* The caller cancels the stream: Stream.async runs the cleanup.
TailCancel ==
    /\ rpc = "live"
    /\ rpc' = "cancelled"
    /\ subscribed' = cleanup(subscribed)
    /\ UNCHANGED <<savedOffset, emitted, offsetCounter, liveSeen, response, tailFrom,
                   tailed, storeVars, notResume>>

ResumeNext ==
    \/ \E servers \in Snapshots : ResumeCatchUp(servers)
    \/ \E servers \in Snapshots : ResumeTail(servers)
    \/ \E type \in LiveTypes : TailEvent(type)
    \/ TailCancel

SpecResume == ResumeInit /\ [][ResumeNext]_vars

(***************************************************************************)
(* Part 2: properties                                                      *)
(***************************************************************************)

\* C1: resuming loses nothing and repeats nothing: the events of a resumed
\* stream carry the offsets one uninterrupted tail from savedOffset would
\* have assigned, so the i-th event has offset savedOffset + i, the live
\* events continuing from the batch the stream emitted.
C1_NoGapResume ==
    \A i \in 1..Len(emitted) :
        emitted[i].offset = formatOffset(plus(startCounter(savedOffset), i))

\* Offsets compare as the strings they are.
RECURSIVE offsetLess(_, _)
offsetLess(a, b) ==
    IF Len(b) = 0 THEN FALSE
    ELSE IF Len(a) = 0 THEN TRUE
    ELSE IF Head(a) # Head(b) THEN Head(a) < Head(b)
    ELSE offsetLess(Tail(a), Tail(b))

\* C2: within one resumed stream the offsets strictly increase, across the
\* boundary between catch-up and tail too, and the first offset is greater
\* than savedOffset.
C2_StrictlyIncreasing ==
    /\ \A i \in 1..Len(emitted) : \A j \in 1..Len(emitted) :
           i < j => offsetLess(emitted[i].offset, emitted[j].offset)
    /\ (Len(emitted) > 0 /\ savedOffset # NoOffset) =>
           offsetLess(savedOffset, emitted[1].offset)

\* C21: the batch catchUp returns has offsets of ten digits that strictly
\* increase as strings, its last event and only its last event carries
\* upToDate, and its nextOffset is the last event's offset, or null when the
\* batch is empty.
C21_CatchUpBatch ==
    LET events == response.events IN
    /\ \A i \in 1..Len(events) : Len(events[i].offset) = OffsetWidth
    /\ \A i \in 1..Len(events) : \A j \in 1..Len(events) :
           i < j => offsetLess(events[i].offset, events[j].offset)
    /\ \A i \in 1..Len(events) : events[i].upToDate <=> (i = Len(events))
    /\ response.nextOffset =
           IF events = <<>> THEN NoOffset ELSE events[Len(events)].offset

\* C22: once the catch-up phase of a resumed stream is over, upToDate is
\* true on exactly one event of the stream, the last of the catch-up phase.
C22_UpToDateOnce ==
    rpc \in {"tail", "live", "cancelled"} =>
        {i \in 1..Len(emitted) : emitted[i].upToDate} = {Len(emitted) - Len(tailed)}

\* C23: the i-th event a tail emits has the offset the tail was started from
\* plus i, whatever events were filtered out in between, and upToDate false;
\* once the caller has cancelled, the subscription is released.
C23_TailOffsets ==
    /\ \A i \in 1..Len(tailed) :
           /\ tailed[i].offset = formatOffset(plus(startCounter(tailFrom), i))
           /\ ~tailed[i].upToDate
    /\ rpc = "cancelled" => ~subscribed

C23_Witness ==
    /\ rpc = "cancelled"
    /\ Len(tailed) >= 1
    /\ liveSeen > Len(tailed)
    /\ tailFrom # NoOffset


(***************************************************************************)
(* Event routing                                                           *)
(*                                                                         *)
(* The four routers, each as the list of World Store calls it makes for    *)
(* one event.  A payload is a record; a property the payload lacks reads   *)
(* as undefined, here the given default.                                   *)
(***************************************************************************)
Missing == [x \in {} |-> 0]
get(rec, name, default) == IF name \in DOMAIN rec THEN rec[name] ELSE default

call(op, arg) == [op |-> op, arg |-> arg]

\* The store after one call; an entity without id is filed under no id.
applyCall(st, c) ==
    LET entity == IF "id" \in DOMAIN c.arg THEN c.arg ELSE [id |-> NoId] @@ c.arg
    IN IF c.op = "upsertSession" THEN upsertSession(st, entity)
       ELSE IF c.op = "upsertMessage" THEN upsertMessage(st, entity)
       ELSE IF c.op = "upsertPart" THEN upsertPart(st, entity)
       ELSE IF c.arg[1] \in SessionIds THEN updateStatus(st, c.arg[1], c.arg[2])
       ELSE st

RECURSIVE applyCalls(_, _)
applyCalls(st, calls) ==
    IF calls = <<>> THEN st ELSE applyCalls(applyCall(st, Head(calls)), Tail(calls))

markRunningNever(payload) == <<>>

\* The implicit liveness signal of routeEventToStore.
markRunning(payload) ==
    IF get(payload, "sessionID", NoId) # NoId
    THEN <<call("updateStatus", <<payload.sessionID, "running">>)>>
    ELSE <<>>

\* routeEventToStore (merged-stream.ts), on a SourceEvent.
routeEventToStoreCalls(event) ==
    LET data == event.data IN
    IF event.type \in {"session.created", "session.updated"}
    THEN IF get(data, "id", NoId) # NoId THEN <<call("upsertSession", data)>> ELSE <<>>
    ELSE IF event.type \in {"message.created", "message.updated"}
    THEN IF get(data, "id", NoId) # NoId
         THEN <<call("upsertMessage", data)>> \o markRunning(data)
         ELSE <<>>
    ELSE IF event.type \in {"part.created", "part.updated", "message.part.updated"}
    THEN LET partData == IF event.type = "message.part.updated"
                         THEN get(data, "part", Missing) ELSE data
         IN IF get(partData, "id", NoId) # NoId
            THEN <<call("upsertPart", partData)>> \o markRunning(partData)
            ELSE <<>>
    ELSE IF event.type = "session.status"
    THEN IF get(data, "sessionID", NoId) # NoId /\ get(data, "status", NoStatus) # NoStatus
         THEN <<call("updateStatus", <<data.sessionID, data.status>>)>>
         ELSE <<>>
    ELSE <<>>

routeEventToStore(event, st) == applyCalls(st, routeEventToStoreCalls(event))

\* WorldSSE.handleEvent (sse.ts), on an SSEEvent.
handleEventCalls(event) ==
    LET properties == event.properties IN
    IF event.type \in {"session.created", "session.updated"}
    THEN IF get(properties, "id", NoId) # NoId
         THEN <<call("upsertSession", properties)>> ELSE <<>>
    ELSE IF event.type \in {"message.created", "message.updated"}
    THEN IF get(properties, "id", NoId) # NoId
         THEN <<call("upsertMessage", properties)>> ELSE <<>>
    ELSE IF event.type \in {"part.created", "part.updated"}
    THEN IF get(properties, "id", NoId) # NoId
         THEN <<call("upsertPart", properties)>> ELSE <<>>
    ELSE IF event.type = "session.status"
    THEN IF get(properties, "sessionID", NoId) # NoId
            /\ get(properties, "status", NoStatus) # NoStatus
         THEN <<call("updateStatus", <<properties.sessionID, properties.status>>)>>
         ELSE <<>>
    ELSE <<>>

\* createSSEBridge.processEvent (sse-bridge.ts), on an event's payload.
processEventCalls(event) ==
    LET properties == event.properties IN
    IF event.type \in {"session.created", "session.updated"}
    THEN IF "info" \in DOMAIN properties
         THEN <<call("upsertSession", properties.info)>> ELSE <<>>
    ELSE IF event.type = "message.updated"
    THEN IF "info" \in DOMAIN properties
         THEN <<call("upsertMessage", properties.info)>> ELSE <<>>
    ELSE IF event.type = "message.part.updated"
    THEN IF "part" \in DOMAIN properties
         THEN <<call("upsertPart", properties.part)>> ELSE <<>>
    ELSE IF event.type = "session.status"
    THEN IF get(properties, "sessionID", NoId) # NoId
            /\ get(properties, "status", NoStatus) # NoStatus
         THEN <<call("updateStatus", <<properties.sessionID, properties.status>>)>>
         ELSE <<>>
    ELSE <<>>

\* createWorldStream's handleSSEEvent (stream.ts), on an event's payload.
handleSSEEventCalls(event) ==
    LET properties == event.properties IN
    IF event.type \in {"session.created", "session.updated"}
    THEN <<call("upsertSession", properties)>>
    ELSE IF event.type \in {"message.created", "message.updated"}
    THEN <<call("upsertMessage", properties)>>
    ELSE IF event.type \in {"part.created", "part.updated"}
    THEN <<call("upsertPart", properties)>>
    ELSE IF event.type = "session.status"
    THEN <<call("updateStatus", <<get(properties, "sessionID", NoId),
                                  get(properties, "status", NoStatus)>>)>>
    ELSE <<>>

(***************************************************************************)
(* Part 3: WorldSSE                                                        *)
(*                                                                         *)
(* One connection task (an Effect fiber) per port.  A task waits for the   *)
(* bootstrap fetches ("bootstrap"), applies the snapshot in one            *)
(* synchronous run of three store calls ("setStatus", "setConnected" are   *)
(* the places between them, where a store subscriber's callback runs),     *)
(* opens the SSE request ("sse"), and consumes events ("streaming").       *)
(*                                                                         *)
(* A failed effect inside Effect.gen is not thrown into the generator:     *)
(* when the bootstrap or the stream fails, the task ends as "failed" and   *)
(* neither the catch block nor the statements after the loop run.          *)
(*                                                                         *)
(* An interrupt stops a suspended task before its next step; a task that   *)
(* is inside a synchronous run finishes that run first.                    *)
(***************************************************************************)
MaxReconnectAttempts == 10

\* The sessions each backend may come to hold.
Owned == [p \in Ports |-> IF p = 1 THEN {1, 3} ELSE {2}]

Applying == {"setStatus", "setConnected"}

\* No task is inside a synchronous run: anything may be scheduled.
Quiet == \A p \in Ports : fiber[p] \notin Applying

\* The answers of GET /session and GET /session/status.
RECURSIVE sessionsResponse(_)
sessionsResponse(ids) ==
    IF ids = {} THEN <<>>
    ELSE LET id == CHOOSE i \in ids : \A j \in ids : i <= j
         IN <<[id |-> id, updated |-> 1]>> \o sessionsResponse(ids \ {id})

statusMapOf(b) == [s \in SessionIds |-> IF s \in b.busy THEN "running" ELSE NoStatus]

\* WorldSSE.handleEvent: the store after an SSE event.
handleEvent(st, event) == applyCalls(st, handleEventCalls(event))

\* Fiber.interrupt on the task of one port.
interrupt(f) == IF f \in Applying THEN f ELSE "none"

\* connectToServer for a set of ports, called while running: a task is
\* forked and registered for each port without one.  The task runs at once
\* up to its bootstrap fetches; with no attempt allowed it ends at once.
connectToServer(s, ports) ==
    LET new == ports \ s.connectionFibers
        entered == MaxReconnectAttempts > 0
    IN [connectionFibers |-> s.connectionFibers \cup new,
        connectedPorts |-> IF entered THEN s.connectedPorts \cup new
                           ELSE s.connectedPorts \ new,
        fiber |-> [p \in Ports |->
                     IF p \in new THEN (IF entered THEN "bootstrap" ELSE "none")
                     ELSE s.fiber[p]]]

\* disconnectFromServer for a set of ports.
disconnectFromServer(s, ports) ==
    [connectionFibers |-> s.connectionFibers \ ports,
     connectedPorts |-> s.connectedPorts \ ports,
     fiber |-> [p \in Ports |->
                  IF p \in ports /\ p \in s.connectionFibers
                  THEN interrupt(s.fiber[p]) ELSE s.fiber[p]]]

connections ==
    [connectionFibers |-> connectionFibers, connectedPorts |-> connectedPorts,
     fiber |-> fiber]

SseInit ==
    /\ StoreStart
    /\ IdleExcept("sse")
    /\ serverUrl \in {0, 1}
    /\ running = FALSE
    /\ discoveryFiber = FALSE
    /\ connectionFibers = {}
    /\ connectedPorts = {}
    /\ fiber = [p \in Ports |-> "none"]
    /\ interrupted = {}
    /\ backend = [p \in Ports |-> [sessions |-> {}, busy |-> {}]]
    /\ called = "none"

\* start() returns at once when the manager is running.
startReturnsAtOnceNever(r) == FALSE
startReturnsAtOnce(r) == r

\* start()
Start ==
    /\ Quiet
    /\ IF startReturnsAtOnce(running)
       THEN /\ called' = "start again"
            /\ UNCHANGED <<running, store, connectionFibers, connectedPorts, fiber,
                           discoveryFiber>>
       ELSE /\ called' = "start"
            /\ running' = TRUE
            /\ store' = setConnectionStatus(store, "connecting")
            /\ IF serverUrl # 0
               THEN LET s == connectToServer(connections, {serverUrl})
                    IN /\ connectionFibers' = s.connectionFibers
                       /\ connectedPorts' = s.connectedPorts
                       /\ fiber' = s.fiber
                       /\ UNCHANGED discoveryFiber
               ELSE /\ discoveryFiber' = TRUE
                    /\ UNCHANGED <<connectionFibers, connectedPorts, fiber>>
    /\ UNCHANGED <<serverUrl, interrupted, backend, storeAux, notSse>>

\* stop(); it may be called from a store subscriber's callback, inside a
\* task's synchronous run.
Stop ==
    /\ running' = FALSE
    /\ discoveryFiber' = FALSE
    /\ fiber' = [p \in Ports |->
                   IF p \in connectionFibers THEN interrupt(fiber[p]) ELSE fiber[p]]
    /\ interrupted' = interrupted \cup {p \in connectionFibers : fiber[p] \in Applying}
    /\ connectionFibers' = {}
    /\ connectedPorts' = {}
    /\ store' = setConnectionStatus(store, "disconnected")
    /\ called' = "stop"
    /\ UNCHANGED <<serverUrl, backend, storeAux, notSse>>

\* One round of the discovery loop, from the answer of discoverServers
\* (an empty list when discovery fails) to the sleep.
DiscoveryTick(servers) ==
    /\ Quiet
    /\ running
    /\ discoveryFiber
    /\ LET s1 == connectToServer(connections, servers \ connectedPorts)
           s2 == disconnectFromServer(s1, s1.connectedPorts \ servers)
       IN /\ connectionFibers' = s2.connectionFibers
          /\ connectedPorts' = s2.connectedPorts
          /\ fiber' = s2.fiber
          /\ store' = IF s2.connectedPorts # {}
                      THEN setConnectionStatus(store, "connected")
                      ELSE IF servers = {}
                      THEN setConnectionStatus(store, "disconnected")
                      ELSE store
    /\ UNCHANGED <<called, serverUrl, running, discoveryFiber, interrupted, backend,
                   storeAux, notSse>>

\* bootstrapFromServer: both fetches answered; store.setSessions.
BootstrapSetSessions(p) ==
    /\ Quiet
    /\ fiber[p] = "bootstrap"
    /\ store' = setSessions(store, sessionsResponse(backend[p].sessions))
    /\ fiber' = [fiber EXCEPT ![p] = "setStatus"]
    /\ UNCHANGED <<called, serverUrl, running, discoveryFiber, connectionFibers,
                   connectedPorts, interrupted, backend, storeAux, notSse>>

\* bootstrapFromServer: store.setStatus.
BootstrapSetStatus(p) ==
    /\ fiber[p] = "setStatus"
    /\ store' = setStatus(store, statusMapOf(backend[p]))
    /\ fiber' = [fiber EXCEPT ![p] = "setConnected"]
    /\ UNCHANGED <<called, serverUrl, running, discoveryFiber, connectionFibers,
                   connectedPorts, interrupted, backend, storeAux, notSse>>

\* bootstrapFromServer: store.setConnectionStatus("connected"); the task
\* then opens the SSE request, unless it was interrupted meanwhile.
BootstrapSetConnected(p) ==
    /\ fiber[p] = "setConnected"
    /\ store' = setConnectionStatus(store, "connected")
    /\ fiber' = [fiber EXCEPT ![p] = IF p \in interrupted THEN "none" ELSE "sse"]
    /\ interrupted' = interrupted \ {p}
    /\ UNCHANGED <<called, serverUrl, running, discoveryFiber, connectionFibers,
                   connectedPorts, backend, storeAux, notSse>>

\* A bootstrap fetch fails: the task ends with the failure.
BootstrapFail(p) ==
    /\ Quiet
    /\ fiber[p] = "bootstrap"
    /\ fiber' = [fiber EXCEPT ![p] = "failed"]
    /\ UNCHANGED <<called, serverUrl, running, discoveryFiber, connectionFibers,
                   connectedPorts, interrupted, backend, storeVars, notSse>>

\* connectToSSE: the response of GET /global/event is there and is read.
SSEOpen(p) ==
    /\ Quiet
    /\ fiber[p] = "sse"
    /\ fiber' = [fiber EXCEPT ![p] = "streaming"]
    /\ UNCHANGED <<called, serverUrl, running, discoveryFiber, connectionFibers,
                   connectedPorts, interrupted, backend, storeVars, notSse>>

\* connectToSSE: emit.fail (request refused, no body, read error).
SSEFail(p) ==
    /\ Quiet
    /\ fiber[p] \in {"sse", "streaming"}
    /\ fiber' = [fiber EXCEPT ![p] = "failed"]
    /\ UNCHANGED <<called, serverUrl, running, discoveryFiber, connectionFibers,
                   connectedPorts, interrupted, backend, storeVars, notSse>>

\* connectToSSE: emit.end; the loop is left and the task unregisters itself.
SSEEnd(p) ==
    /\ Quiet
    /\ fiber[p] = "streaming"
    /\ fiber' = [fiber EXCEPT ![p] = "none"]
    /\ connectedPorts' = connectedPorts \ {p}
    /\ connectionFibers' = connectionFibers \ {p}
    /\ UNCHANGED <<called, serverUrl, running, discoveryFiber, interrupted, backend,
                   storeVars, notSse>>

\* The backend's event reaches the task if its stream is being read.
deliver(p, event) == IF fiber[p] = "streaming" THEN handleEvent(store, event) ELSE store

\* A session is created on a backend, which publishes session.created.
BackendCreate(p, id) ==
    /\ Quiet
    /\ id \in Owned[p] \ backend[p].sessions
    /\ backend' = [backend EXCEPT ![p].sessions = @ \cup {id}]
    /\ store' = deliver(p, [type |-> "session.created",
                            properties |-> [id |-> id, updated |-> 1]])
    /\ UNCHANGED <<called, serverUrl, running, discoveryFiber, connectionFibers,
                   connectedPorts, fiber, interrupted, storeAux, notSse>>

\* A session becomes busy on a backend, which publishes session.status.
BackendBusy(p, id) ==
    /\ Quiet
    /\ id \in backend[p].sessions \ backend[p].busy
    /\ backend' = [backend EXCEPT ![p].busy = @ \cup {id}]
    /\ store' = deliver(p, [type |-> "session.status",
                            properties |-> [sessionID |-> id, status |-> "running"]])
    /\ UNCHANGED <<called, serverUrl, running, discoveryFiber, connectionFibers,
                   connectedPorts, fiber, interrupted, storeAux, notSse>>

SseNext ==
    \/ Start
    \/ Stop
    \/ \E servers \in SUBSET Ports : DiscoveryTick(servers)
    \/ \E p \in Ports : BootstrapSetSessions(p)
    \/ \E p \in Ports : BootstrapSetStatus(p)
    \/ \E p \in Ports : BootstrapSetConnected(p)
    \/ \E p \in Ports : BootstrapFail(p)
    \/ \E p \in Ports : SSEOpen(p)
    \/ \E p \in Ports : SSEFail(p)
    \/ \E p \in Ports : SSEEnd(p)
    \/ \E p \in Ports : \E id \in SessionIds : BackendCreate(p, id)
    \/ \E p \in Ports : \E id \in SessionIds : BackendBusy(p, id)

SpecSSE == SseInit /\ [][SseNext]_vars

(***************************************************************************)
(* Part 3: properties                                                      *)
(***************************************************************************)

\* C7: once stop() has returned and until start() is called again, nothing
\* of the manager (discovery round, bootstrap, event, task clean-up) changes
\* the World Store or the connection bookkeeping.
C7_StopCancelsEverything ==
    [][(~running /\ ~running') =>
         /\ store' = store
         /\ connectedPorts' = connectedPorts
         /\ connectionFibers' = connectionFibers]_vars

\* C8: a connection whose bootstrap or stream has failed is either being
\* attempted again (its task lives on, in backoff or retrying) or has
\* settled as disconnected: a port is never counted as connected while its
\* task is dead.
C8_RetryOrDisconnected ==
    \A p \in Ports : fiber[p] = "failed" => p \notin connectedPorts

\* C9: once the live stream of a backend is being consumed, every session
\* the backend holds is in the World Store: the snapshot was applied first
\* and nothing created after it is missing.
C9_BootstrapClosesGap ==
    \A p \in Ports :
        fiber[p] = "streaming" =>
            \A id \in backend[p].sessions : has(store.sessions, id)

\* C10: when the bootstrap of a connection fails, the connection status
\* becomes "error".
C10_BootstrapFailureIsError ==
    [][\A p \in Ports :
         (fiber[p] = "bootstrap" /\ fiber'[p] = "failed") =>
             store'.connectionStatus = "error"]_vars

\* The places of a connection task that is still running.
Alive == {"bootstrap", "setStatus", "setConnected", "sse", "streaming"}

\* C11: after each discovery round there is a running connection task for
\* every discovered address and for no other address.
C11_DiscoveryReconciliation ==
    [][\A servers \in SUBSET Ports :
         DiscoveryTick(servers) =>
             \A p \in Ports : (fiber'[p] \in Alive) <=> (p \in servers)]_vars

\* C12: the aggregate connectionStatus is "connected" only while some
\* connection has completed its bootstrap and is opening or reading its
\* event stream.
C12_ConnectedMeansLive ==
    store.connectionStatus = "connected" =>
        \E p \in Ports : fiber[p] \in {"sse", "streaming"}

\* C31: a session, and its status, once in the World Store stays there
\* through every later step of the manager: the bootstrap of a second
\* backend, a re-bootstrap, an event.
C31_RawEntitiesNeverDeleted ==
    [][\A id \in SessionIds :
         /\ has(store.sessions, id) => has(store'.sessions, id)
         /\ store.status[id] # NoStatus => store'.status[id] # NoStatus]_vars

MaxConfigAttempts == 7     \* largest config.maxReconnectAttempts of a run

BaseDelayMs == 1000
MaxDelayMs == 30000

Min(a, b) == IF a < b THEN a ELSE b

\* Math.min(1000 * Math.pow(2, attempts), 30000)
backoffDelay(n) == Min(BaseDelayMs * 2^n, MaxDelayMs)

RetryInit ==
    /\ StoreStart
    /\ IdleExcept("retry")
    /\ maxReconnectAttempts \in 0..MaxConfigAttempts
    /\ autoReconnect \in BOOLEAN
    /\ attempts = 0
    /\ retryPhase = IF maxReconnectAttempts > 0 THEN "attempt" ELSE "done"
    /\ retryLog = <<>>

\* The bootstrap succeeds and the stream is consumed.
AttemptConnects ==
    /\ retryPhase = "attempt"
    /\ retryPhase' = "streaming"
    /\ retryLog' = Append(retryLog, 0)
    /\ UNCHANGED <<maxReconnectAttempts, autoReconnect, attempts, notRetry>>

\* The catch block: count the attempt, give up or sleep and loop.
AttemptCaught ==
    /\ retryPhase \in {"attempt", "streaming"}
    /\ attempts' = attempts + 1
    /\ IF ~autoReconnect \/ attempts + 1 >= maxReconnectAttempts
       THEN /\ retryPhase' = "done"
            /\ UNCHANGED retryLog
       ELSE /\ retryPhase' = "attempt"
            /\ retryLog' = Append(retryLog, backoffDelay(attempts + 1))
    /\ UNCHANGED <<maxReconnectAttempts, autoReconnect, notRetry>>

\* The stream ends normally: break.
StreamEnds ==
    /\ retryPhase = "streaming"
    /\ retryPhase' = "done"
    /\ UNCHANGED <<maxReconnectAttempts, autoReconnect, attempts, retryLog, notRetry>>

RetryNext ==
    \/ AttemptConnects
    \/ AttemptCaught
    \/ StreamEnds

SpecRetry == RetryInit /\ [][RetryNext]_vars

\* The number of sleeps up to entry i since the last connect (or the start).
sleepsSinceConnect(i) ==
    LET connects == {j \in 1..i : retryLog[j] = 0}
        last == IF connects = {} THEN 0 ELSE CHOOSE j \in connects : \A k \in connects : k <= j
    IN i - last

\* C13: the sleeps before successive retries are 1s, 2s, 4s, ..., at most
\* 30s, starting again from 1s after an attempt that connected.
C13_ExponentialBackoff ==
    \A i \in 1..Len(retryLog) :
        retryLog[i] # 0 =>
            retryLog[i] = Min(1000 * 2^(sleepsSinceConnect(i) - 1), 30000)

(***************************************************************************)
(* Part 5: createMergedWorldStream: stream() and its consumer              *)
(*                                                                         *)
(* Every source is probed; when every probe has settled, stream() is       *)
(* called on the available sources and the streams are merged with         *)
(* Stream.mergeAll.  The consumer routes each merged event to the store.   *)
(* A merged stream fails as soon as one of its streams fails, and the      *)
(* streams still open are then interrupted.                                *)
(***************************************************************************)
MaxSourceEvents == 2     \* events one source emits

\* available(): yields true or false, fails, or dies (throws).
ProbeOutcomes == {"true", "false", "fail", "die"}

\* A plausible slip: the typed failure of a probe is not caught.
availabilityCheckNoCatchAll(outcome) ==
    IF outcome = "true" THEN "available"
    ELSE IF outcome = "fail" THEN "error"
    ELSE "unavailable"

\* available().pipe(map, catchAllDefect, catchAll)
availabilityCheck(outcome) ==
    IF outcome = "true" THEN "available" ELSE "unavailable"

\* A plausible slip: the results are not filtered.
everySource(results) == DOMAIN results

\* results.filter((r) => r.isAvailable).map((r) => r.source)
availableSources(results) == {s \in DOMAIN results : results[s] = "available"}

\* The n-th event of a source.
sourceEvent(s, n) ==
    [source |-> s, type |-> "session.updated", data |-> [id |-> s, updated |-> n]]

MergeInit ==
    /\ StoreStart
    /\ IdleExcept("merge")
    /\ probe = [s \in Sources |-> "pending"]
    /\ source = [s \in Sources |-> "idle"]
    /\ sent = [s \in Sources |-> 0]
    /\ merged = <<>>
    /\ merge = "probing"

\* The available() of one source settles.
ProbeSettles(s, outcome) ==
    /\ merge = "probing"
    /\ probe[s] = "pending"
    /\ probe' = [probe EXCEPT ![s] = outcome]
    /\ UNCHANGED <<source, sent, merged, merge, storeVars, notMerge>>

\* Effect.all has every result: the streams of the available sources are
\* created and merged.
MergeStarts ==
    /\ merge = "probing"
    /\ \A s \in Sources : probe[s] # "pending"
    /\ LET results == [s \in Sources |-> availabilityCheck(probe[s])]
           started == availableSources(results)
       IN IF \E s \in Sources : results[s] = "error"
          THEN /\ merge' = "failed"
               /\ UNCHANGED source
          ELSE /\ merge' = IF started = {} THEN "ended" ELSE "running"
               /\ source' = [s \in Sources |-> IF s \in started THEN "open" ELSE "idle"]
    /\ UNCHANGED <<probe, sent, merged, storeVars, notMerge>>

\* A source emits its next event; the consumer routes it to the store.
SourceEmits(s) ==
    /\ merge = "running"
    /\ source[s] = "open"
    /\ sent[s] < MaxSourceEvents
    /\ sent' = [sent EXCEPT ![s] = @ + 1]
    /\ merged' = Append(merged, sourceEvent(s, sent[s] + 1))
    /\ store' = routeEventToStore(sourceEvent(s, sent[s] + 1), store)
    /\ UNCHANGED <<probe, source, merge, storeAux, notMerge>>

\* The stream of a source ends; the merged stream ends with its last stream.
SourceEnds(s) ==
    /\ merge = "running"
    /\ source[s] = "open"
    /\ source' = [source EXCEPT ![s] = "ended"]
    /\ merge' = IF \A t \in Sources \ {s} : source[t] # "open" THEN "ended" ELSE "running"
    /\ UNCHANGED <<probe, sent, merged, storeVars, notMerge>>

\* The stream of a source fails: Stream.mergeAll fails, the other streams
\* are interrupted, and the consumer's catchAll ends it quietly.
SourceFails(s) ==
    /\ merge = "running"
    /\ source[s] = "open"
    /\ source' = [t \in Sources |->
                    IF t = s THEN "failed"
                    ELSE IF source[t] = "open" THEN "interrupted" ELSE source[t]]
    /\ merge' = "failed"
    /\ UNCHANGED <<probe, sent, merged, storeVars, notMerge>>

MergeNext ==
    \/ \E s \in Sources : \E outcome \in ProbeOutcomes : ProbeSettles(s, outcome)
    \/ MergeStarts
    \/ \E s \in Sources : SourceEmits(s)
    \/ \E s \in Sources : SourceEnds(s)
    \/ \E s \in Sources : SourceFails(s)

SpecMerge == MergeInit /\ [][MergeNext]_vars

(***************************************************************************)
(* Part 5: properties                                                      *)
(***************************************************************************)

\* C14: when the stream of one source fails, the streams of the other
\* sources are not cut off: they stay open (or have ended by themselves).
C14_FailureIsolation ==
    \A s \in Sources : \A t \in Sources \ {s} :
        source[s] = "failed" => source[t] # "interrupted"

\* The events source s has emitted, in order.
eventsOf(s) == [n \in 1..sent[s] |-> sourceEvent(s, n)]

\* C15: a source whose probe yields false, fails or dies contributes
\* nothing and breaks nothing: the merged events are exactly those of the
\* available sources, with no available source the merged stream is empty
\* and ended, and the merged stream fails only if a source's stream failed.
C15_GracefulDegradation ==
    /\ \A i \in 1..Len(merged) : probe[merged[i].source] = "true"
    /\ \A s \in Sources :
           probe[s] = "true" /\ merge # "probing" =>
               SelectSeq(merged, LAMBDA e : e.source = s) = eventsOf(s)
    /\ (merge # "probing" /\ \A s \in Sources : probe[s] # "true") =>
           (merge = "ended" /\ merged = <<>>)
    /\ merge = "failed" => \E s \in Sources : source[s] = "failed"

C15_Witness ==
    /\ probe[1] = "fail"
    /\ probe[2] = "true"
    /\ merge = "ended"
    /\ merged = <<sourceEvent(2, 1), sourceEvent(2, 2)>>

\* C16: stream() is called on a source only after every probe has settled
\* and only if the source's own probe yielded true.
C16_StreamAfterAvailable ==
    \A s \in Sources :
        source[s] # "idle" =>
            /\ probe[s] = "true"
            /\ \A t \in Sources : probe[t] # "pending"

C16_Witness ==
    /\ source[1] = "open"
    /\ source[2] = "idle"
    /\ probe[2] \in {"false", "fail", "die"}

(***************************************************************************)
(* Part 6: a durable-log event source (createSwarmDbSource)                *)
(*                                                                         *)
(* The source polls an append-only events table.  Its first poll sets the  *)
(* cursor to MAX(sequence); every poll then emits the rows whose sequence  *)
(* is greater than the cursor, in sequence order, and advances the cursor. *)
(***************************************************************************)
MaxRows == 5        \* rows the events table comes to hold
MaxStep == 2        \* largest step between consecutive sequence numbers

Null == -1

last(seq) == seq[Len(seq)]

\* SELECT MAX(sequence) as max_seq FROM events
maxSeqOf(rows) == IF rows = <<>> THEN Null ELSE last(rows)

\* A plausible slip: the cursor is left at the beginning.
initialCursorZero(maxSeq, cursor) == cursor

\* if (typeof maxSeq === "number" && maxSeq > 0) lastSequence = maxSeq
initialCursor(maxSeq, cursor) == IF maxSeq # Null /\ maxSeq > 0 THEN maxSeq ELSE cursor

\* SELECT * FROM events WHERE sequence > cursor ORDER BY sequence
rowsAfter(rows, cursor) == SelectSeq(rows, LAMBDA n : n > cursor)

LogInit ==
    /\ StoreStart
    /\ IdleExcept("log")
    /\ log \in {<<>>, <<1>>, <<1, 2>>, <<2, 3, 5>>}
    /\ initialized = FALSE
    /\ lastSequence = 0
    /\ logEmitted = <<>>
    /\ firstReadAt = 0
    /\ polledAt = 0

\* A writer appends a row, with a greater sequence number.
LogAppend(step) ==
    /\ Len(log) < MaxRows
    /\ log' = Append(log, (IF log = <<>> THEN 0 ELSE last(log)) + step)
    /\ UNCHANGED <<initialized, lastSequence, logEmitted, firstReadAt, polledAt, notLog>>

\* One poll of the source.
LogPoll ==
    /\ LET cursor == IF initialized THEN lastSequence
                     ELSE initialCursor(maxSeqOf(log), lastSequence)
           rows == rowsAfter(log, cursor)
       IN /\ logEmitted' = logEmitted \o rows
          /\ lastSequence' = IF rows = <<>> THEN cursor ELSE last(rows)
    /\ initialized' = TRUE
    /\ firstReadAt' = IF initialized THEN firstReadAt ELSE Len(log)
    /\ polledAt' = Len(log)
    /\ UNCHANGED <<log, notLog>>

LogNext ==
    \/ \E step \in 1..MaxStep : LogAppend(step)
    \/ LogPoll

SpecLog == LogInit /\ [][LogNext]_vars

\* C17: the first read emits none of the rows the log then holds, and the
\* source has emitted exactly the rows appended after its first read, up to
\* its latest poll, each once and in sequence order.
C17_TailSeekOnFirstRead ==
    initialized => logEmitted = SubSeq(log, firstReadAt + 1, polledAt)

C17_Witness ==
    /\ initialized
    /\ firstReadAt >= 2
    /\ Len(logEmitted) >= 2

(***************************************************************************)
(* Part 7: one event through a router                                      *)
(*                                                                         *)
(* The four routers of the repository are applied to the same events: an   *)
(* event is a type and a payload, which routeEventToStore reads as         *)
(* SourceEvent.data and the other three as the SSE event's properties.     *)
(* Every store call notifies the subscribers, so an event notifies         *)
(* somebody exactly when its list of store calls is not empty.             *)
(***************************************************************************)
Routers == {"routeEventToStore", "handleEvent", "processEvent", "handleSSEEvent"}

SessionTypes == {"session.created", "session.updated"}
MessageTypes == {"message.created", "message.updated"}
PartTypes == {"part.created", "part.updated", "message.part.updated"}
TableTypes == SessionTypes \cup MessageTypes \cup PartTypes \cup {"session.status"}
EventTypes == TableTypes \cup {"memory_stored"}

aSession == [id |-> 2, updated |-> 1]
aMessage == [id |-> 1, sessionID |-> 2, role |-> "user", created |-> 1, completed |-> 0]
aPart == [id |-> 1, messageID |-> 1, sessionID |-> 2, text |-> 1]

drop(rec, name) == [n \in DOMAIN rec \ {name} |-> rec[n]]

\* Payloads: the entities, bare, wrapped in info and wrapped in part; the same
\* without id; a status payload, whole, and without sessionID or status.
Payloads ==
    LET entities == {aSession, aMessage, aPart}
        bare == entities \cup {drop(e, "id") : e \in entities}
    IN bare
       \cup {[info |-> e] : e \in bare}
       \cup {[part |-> e] : e \in bare}
       \cup {[sessionID |-> 2, status |-> "completed"], [sessionID |-> 2],
             [status |-> "completed"], Missing}

Events == [type : EventTypes, payload : Payloads]

\* The store calls router r makes for event e.
callsOf(r, e) ==
    IF r = "routeEventToStore"
    THEN routeEventToStoreCalls([type |-> e.type, data |-> e.payload])
    ELSE LET event == [type |-> e.type, properties |-> e.payload]
         IN IF r = "handleEvent" THEN handleEventCalls(event)
            ELSE IF r = "processEvent" THEN processEventCalls(event)
            ELSE handleSSEEventCalls(event)

\* The stores an event can meet: the empty one, and one that knows session 2.
RouteStores ==
    {EmptyStore,
     updateStatus(upsertSession(EmptyStore, aSession), 2, "completed")}

RouteInit ==
    /\ IdleExcept("route")
    /\ store \in RouteStores
    /\ listeners = {}
    /\ notifyCount = [l \in ListenerIds |-> 0]
    /\ observed = [l \in ListenerIds |-> NoState]
    /\ nCalls = 0
    /\ history = [sessions |-> [i \in SessionIds |-> NoEntity],
                  messages |-> [i \in MessageIds |-> NoEntity],
                  parts |-> [i \in PartIds |-> NoEntity],
                  replaced |-> FALSE, orphaned |-> FALSE]
    /\ routedBy = "none"
    /\ routedEvent = [type |-> "none"]
    /\ storeBefore = [connectionStatus |-> "none"]
    /\ routedCalls = <<>>

\* Router r receives event e.
Route(r, e) ==
    /\ routedBy = "none"
    /\ routedBy' = r
    /\ routedEvent' = e
    /\ storeBefore' = store
    /\ routedCalls' = callsOf(r, e)
    /\ store' = applyCalls(store, callsOf(r, e))
    /\ nCalls' = nCalls + Len(callsOf(r, e))
    /\ UNCHANGED <<listeners, notifyCount, observed, history, notRoute>>

RouteNext == \E r \in Routers, e \in Events : Route(r, e)

SpecRoute == RouteInit /\ [][RouteNext]_vars

\* The store method the routing table gives an event type.
opOf(type) ==
    IF type \in SessionTypes THEN "upsertSession"
    ELSE IF type \in MessageTypes THEN "upsertMessage"
    ELSE IF type \in PartTypes THEN "upsertPart"
    ELSE IF type = "session.status" THEN "updateStatus"
    ELSE "none"

\* Router r has a case for the type: on some payload it calls the type's method.
typeHandled(r, type) ==
    \E p \in Payloads :
        LET calls == callsOf(r, [type |-> type, payload |-> p])
        IN calls # <<>> /\ Head(calls).op = opOf(type)

\* The calls are the type's method, then at most the implicit running signal.
onlyTableCalls(type, calls) ==
    /\ Len(calls) <= 2
    /\ Len(calls) >= 1 => calls[1].op = opOf(type)
    /\ Len(calls) = 2 =>
           /\ type \in MessageTypes \cup PartTypes
           /\ calls[2].op = "updateStatus"
           /\ calls[2].arg[2] = "running"

totalSwitch(r, e, calls) ==
    /\ e.type \in TableTypes => typeHandled(r, e.type)
    /\ onlyTableCalls(e.type, calls)

\* C18: the router has a case for every type of the routing table, calling
\* the method the table gives the type (upsertSession, upsertMessage,
\* upsertPart, updateStatus), and an event causes no other store call.
C18_TotalSwitch ==
    routedBy \in {"routeEventToStore", "handleEvent", "processEvent"} =>
        totalSwitch(routedBy, routedEvent, routedCalls)

\* C19: after a message or part event has been routed to the store, over the
\* primary connection (handleEvent) or from an auxiliary source
\* (routeEventToStore), the status of the entity's sessionID is running.
C19_ImplicitRunning ==
    /\ routedBy \in {"routeEventToStore", "handleEvent"}
    /\ routedEvent.type \in MessageTypes \cup PartTypes
    /\ routedCalls # <<>>
    => LET entity == Head(routedCalls).arg
       IN get(entity, "sessionID", NoId) \in SessionIds =>
              store.status[entity.sessionID] = "running"

\* No shape of the payload (bare, wrapped in info, wrapped in part) has an id.
withoutId(payload) ==
    /\ get(payload, "id", NoId) = NoId
    /\ get(get(payload, "info", Missing), "id", NoId) = NoId
    /\ get(get(payload, "part", Missing), "id", NoId) = NoId

malformed(e) ==
    \/ e.type \notin TableTypes
    \/ e.type \in SessionTypes \cup MessageTypes \cup PartTypes /\ withoutId(e.payload)
    \/ e.type = "message.part.updated" /\ "part" \notin DOMAIN e.payload
    \/ /\ e.type = "session.status"
       /\ \/ get(e.payload, "sessionID", NoId) = NoId
          \/ get(e.payload, "status", NoStatus) = NoStatus

\* C20: a malformed payload or an unknown event type causes no store call:
\* the store is unchanged and no subscriber is notified.
C20_MalformedDiscarded ==
    /\ routedBy \in {"routeEventToStore", "processEvent", "handleSSEEvent"}
    /\ malformed(routedEvent)
    => /\ store = storeBefore
       /\ routedCalls = <<>>

\* ---- a sequence of events through routeEventToStore --------------------

\* Well-formed events about sessions 1 and 2: every message and every part
\* carries its sessionID.
SequenceEvents ==
    LET messages == {[aMessage EXCEPT !.sessionID = s] : s \in {1, 2}}
        parts == {[aPart EXCEPT !.sessionID = s] : s \in {1, 2}}
    IN [type : SessionTypes, payload : {[id |-> s, updated |-> 1] : s \in {1, 2}}]
       \cup [type : MessageTypes, payload : messages]
       \cup [type : {"part.created", "part.updated"}, payload : parts]
       \cup [type : {"message.part.updated"}, payload : {[part |-> p] : p \in parts}]
       \cup [type : {"session.status"},
             payload : [sessionID : {1, 2}, status : {"completed", "idle"}]]

\* The consumer of the merged stream routes the next event.
RouteInSequence(e) ==
    /\ nCalls < MaxCalls
    /\ routedBy' = "routeEventToStore"
    /\ routedEvent' = e
    /\ storeBefore' = store
    /\ routedCalls' = callsOf("routeEventToStore", e)
    /\ store' = routeEventToStore([type |-> e.type, data |-> e.payload], store)
    /\ nCalls' = nCalls + 1
    /\ UNCHANGED <<listeners, notifyCount, observed, history, notRoute>>

SequenceNext == \E e \in SequenceEvents : RouteInSequence(e)

SpecSequence == RouteInit /\ [][SequenceNext]_vars

\* The session a message or part event is about.
sessionOf(e) ==
    IF e.type = "message.part.updated" THEN e.payload.part.sessionID ELSE e.payload.sessionID

activeIn(st, id) ==
    \A n \in 1..Len(getState(st).sessions) :
        getState(st).sessions[n].id = id => getState(st).sessions[n].isActive

MaxCursorOps == 3       \* cursor operations of one run

ProjectKeys == {1, 2}
Timestamps == {1, 2}
Cursors ==
    [projectKey : ProjectKeys,
     offset : {formatOffset(Num(1)), formatOffset(Num(MaxSaved))},
     timestamp : Timestamps]
IO == {"ok", "fail"}

\* A plausible slip: the column is declared INTEGER, and a text of digits is
\* stored as the number it reads as.
offsetColumnInteger(text) == parseInt(text)

\* offset TEXT NOT NULL: a text is stored as it is.
offsetColumn(text) == text

\* args: [cursor.projectKey, cursor.offset, cursor.timestamp]
rowOf(cursor) ==
    [project_key |-> cursor.projectKey,
     offset |-> offsetColumn(cursor.offset),
     timestamp |-> cursor.timestamp]

\* A plausible slip: no UNIQUE key, every save inserts.
insertOnly(rows, row) == Append(rows, row)

\* INSERT ... ON CONFLICT(project_key) DO UPDATE SET offset, timestamp
insertOrUpdate(rows, row) ==
    IF \E i \in 1..Len(rows) : rows[i].project_key = row.project_key
    THEN [i \in 1..Len(rows) |->
             IF rows[i].project_key = row.project_key
             THEN [rows[i] EXCEPT !.offset = row.offset, !.timestamp = row.timestamp]
             ELSE rows[i]]
    ELSE Append(rows, row)

\* SELECT offset, timestamp, project_key FROM cursors WHERE project_key = ?
selectByKey(rows, projectKey) == SelectSeq(rows, LAMBDA r : r.project_key = projectKey)

\* What loadCursor makes of the result.
loadFrom(rows, projectKey) ==
    LET result == selectByKey(rows, projectKey) IN
    IF Len(result) = 0 THEN NoCursor
    ELSE [offset |-> String(result[1].offset),
          timestamp |-> result[1].timestamp,
          projectKey |-> result[1].project_key]

\* DELETE FROM cursors WHERE project_key = ?
deleteFrom(rows, projectKey) == SelectSeq(rows, LAMBDA r : r.project_key # projectKey)

operation(op, key, io, failed, value) ==
    [op |-> op, key |-> key, io |-> io, failed |-> failed, value |-> value]

CursorInit ==
    /\ StoreStart
    /\ IdleExcept("cursor")
    /\ cursorRows = <<>>
    /\ cursorFile \in {NoOffset, formatOffset(Num(1))}
    /\ latestSaved = <<NoCursor, NoCursor>>
    /\ lastOp = NoOp
    /\ prevOp = NoOp
    /\ nCursorOps = 0

\* One more operation, whose caller gets this.
Operate(o) ==
    /\ nCursorOps < MaxCursorOps
    /\ nCursorOps' = nCursorOps + 1
    /\ prevOp' = lastOp
    /\ lastOp' = o
    /\ UNCHANGED notCursor

\* CursorStore.saveCursor: Effect.tryPromise around the upsert.
SaveCursor(cursor, io) ==
    /\ Operate(operation("saveCursor", cursor.projectKey, io, io = "fail", cursor))
    /\ IF io = "ok"
       THEN /\ cursorRows' = insertOrUpdate(cursorRows, rowOf(cursor))
            /\ latestSaved' = [latestSaved EXCEPT ![cursor.projectKey] = cursor]
       ELSE UNCHANGED <<cursorRows, latestSaved>>
    /\ UNCHANGED cursorFile

\* CursorStore.loadCursor: Effect.tryPromise around the select.
LoadCursor(projectKey, io) ==
    /\ Operate(operation("loadCursor", projectKey, io, io = "fail",
                         IF io = "ok" THEN loadFrom(cursorRows, projectKey) ELSE NoCursor))
    /\ UNCHANGED <<cursorRows, latestSaved, cursorFile>>

\* CursorStore.deleteCursor: Effect.tryPromise around the delete.
DeleteCursor(projectKey, io) ==
    /\ Operate(operation("deleteCursor", projectKey, io, io = "fail", NoCursor))
    /\ IF io = "ok"
       THEN /\ cursorRows' = deleteFrom(cursorRows, projectKey)
            /\ latestSaved' = [latestSaved EXCEPT ![projectKey] = NoCursor]
       ELSE UNCHANGED <<cursorRows, latestSaved>>
    /\ UNCHANGED cursorFile

asCursor(offset) == [projectKey |-> 0, offset |-> offset, timestamp |-> 0]

\* output.ts saveCursor: await writeFile(cursorFile, cursor); a failure rejects.
FileSaveCursor(offset, io) ==
    /\ Operate(operation("file.saveCursor", 0, io, io = "fail", asCursor(offset)))
    /\ cursorFile' = IF io = "ok" THEN offset ELSE cursorFile
    /\ UNCHANGED <<cursorRows, latestSaved>>

\* output.ts loadCursor: null when the file does not exist; the content when
\* it is read; null again when reading it fails (catch { return null }).
FileLoadCursor(io) ==
    /\ cursorFile = NoOffset => io = "ok"
    /\ Operate(operation("file.loadCursor", 0, io, FALSE,
                         IF io = "ok" THEN asCursor(cursorFile) ELSE asCursor(NoOffset)))
    /\ UNCHANGED <<cursorRows, latestSaved, cursorFile>>

CursorNext ==
    \/ \E cursor \in Cursors, io \in IO : SaveCursor(cursor, io)
    \/ \E projectKey \in ProjectKeys, io \in IO : LoadCursor(projectKey, io)
    \/ \E projectKey \in ProjectKeys, io \in IO : DeleteCursor(projectKey, io)
    \/ \E offset \in {formatOffset(Num(MaxSaved))}, io \in IO : FileSaveCursor(offset, io)
    \/ \E io \in IO : FileLoadCursor(io)

SpecCursor == CursorInit /\ [][CursorNext]_vars

\* C24: loadCursor(c.projectKey) right after saveCursor(c), both succeeding,
\* returns a cursor equal to c in offset, timestamp and projectKey.
C24_CursorRoundTrip ==
    /\ prevOp.op = "saveCursor" /\ ~prevOp.failed
    /\ lastOp.op = "loadCursor" /\ ~lastOp.failed
    /\ lastOp.key = prevOp.key
    => lastOp.value = prevOp.value

C24_Witness ==
    /\ nCursorOps = 3
    /\ prevOp.op = "saveCursor" /\ ~prevOp.failed
    /\ lastOp.op = "loadCursor" /\ ~lastOp.failed
    /\ lastOp.key = prevOp.key
    /\ lastOp.value = prevOp.value
    /\ lastOp.value.offset = formatOffset(Num(1))

\* C25: the table holds at most one row per project key; loadCursor(k) would
\* return the cursor saved last for k, or null if none was saved since k was
\* last deleted, whatever was done to other keys; and saving a cursor twice
\* leaves the table as saving it once.
C25_CursorStoreIsAMap ==
    /\ \A k \in ProjectKeys :
           Cardinality({i \in 1..Len(cursorRows) : cursorRows[i].project_key = k}) <= 1
    /\ \A k \in ProjectKeys : loadFrom(cursorRows, k) = latestSaved[k]
    /\ \A c \in Cursors :
           insertOrUpdate(insertOrUpdate(cursorRows, rowOf(c)), rowOf(c))
               = insertOrUpdate(cursorRows, rowOf(c))

\* A key saved, another key saved, the first key saved again.
C25_Witness ==
    /\ nCursorOps = 3
    /\ Len(cursorRows) = 2
    /\ prevOp.op = "saveCursor" /\ ~prevOp.failed
    /\ lastOp.op = "saveCursor" /\ ~lastOp.failed
    /\ lastOp.key # prevOp.key
    /\ cursorRows[1].project_key = lastOp.key
    /\ latestSaved[lastOp.key] = lastOp.value

\* C26: a cursor operation whose I/O failed gives its caller a failure.
C26_CursorFailureSurfaced ==
    lastOp.io = "fail" => lastOp.failed

(***************************************************************************)
(* Part 9: createWorldStream (packages/core/src/world/stream.ts)            *)
(*                                                                         *)
(* bootstrap() is an async function that createWorldStream calls and does   *)
(* not await: it runs to its first await at once and goes on whenever the   *)
(* awaited import and fetches settle.  MultiServerSSE is not among the      *)
(* sources; of it the model keeps whether it was started, and that a        *)
(* started one delivers events to handleSSEEvent.                           *)
(***************************************************************************)
iteratorVars == <<iterator, queue, yielded, notifications>>

\* createWorldStream, up to the first await of bootstrap().
CreateWorldStream ==
    /\ bootstrap = "none"
    /\ store' = setConnectionStatus(store, "connecting")
    /\ bootstrap' = "import"
    /\ UNCHANGED <<sseStarted, disposed, iteratorVars, storeAux, notStream>>

\* bootstrap(): the import of the SDK client has settled.
BootstrapImports ==
    /\ bootstrap = "import"
    /\ bootstrap' = "fetch"
    /\ UNCHANGED <<store, sseStarted, disposed, iteratorVars, storeAux, notStream>>

\* bootstrap(): both fetches have answered; the store is populated, marked
\* connected, and the SSE connection is started.
BootstrapPopulates(ids, busy) ==
    /\ bootstrap = "fetch"
    /\ store' = setConnectionStatus(
                    setStatus(setSessions(store, sessionsResponse(ids)),
                              statusMapOf([sessions |-> ids, busy |-> busy])),
                    "connected")
    /\ sseStarted' = TRUE
    /\ bootstrap' = "done"
    /\ UNCHANGED <<disposed, iteratorVars, storeAux, notStream>>

\* bootstrap(): the import or a fetch has failed; the catch block.
BootstrapCatches ==
    /\ bootstrap \in {"import", "fetch"}
    /\ store' = setConnectionStatus(store, "error")
    /\ bootstrap' = "failed"
    /\ UNCHANGED <<sseStarted, disposed, iteratorVars, storeAux, notStream>>

\* dispose(), on the handle createWorldStream has returned.
Dispose ==
    /\ bootstrap # "none"
    /\ sseStarted' = FALSE
    /\ store' = setConnectionStatus(store, "disconnected")
    /\ disposed' = TRUE
    /\ UNCHANGED <<bootstrap, iteratorVars, storeAux, notStream>>

\* An event of a started SSE connection reaches handleSSEEvent.
StreamEvent(event) ==
    /\ sseStarted
    /\ store' = applyCalls(store, handleSSEEventCalls(event))
    /\ UNCHANGED <<bootstrap, sseStarted, disposed, iteratorVars, storeAux, notStream>>

StreamEvents ==
    {[type |-> "session.created", properties |-> [id |-> 3, updated |-> 1]],
     [type |-> "session.status", properties |-> [sessionID |-> 1, status |-> "running"]],
     [type |-> "session.status", properties |-> [sessionID |-> 1, status |-> "completed"]]}

DisposeInit == StoreStart /\ IdleExcept("stream") /\ StreamIdle

DisposeNext ==
    \/ CreateWorldStream
    \/ BootstrapImports
    \/ \E ids \in SUBSET SessionIds : \E busy \in SUBSET ids : BootstrapPopulates(ids, busy)
    \/ BootstrapCatches
    \/ Dispose
    \/ \E event \in StreamEvents : StreamEvent(event)

SpecDispose == DisposeInit /\ [][DisposeNext]_vars

\* C34: once dispose() has returned the connection status stays
\* "disconnected": a bootstrap that was in flight sets it neither to
\* "connected" nor to "error", does not start the SSE connection, and does
\* not populate the store.
C34_DisposeIsFinal ==
    [][disposed =>
         /\ store'.connectionStatus = "disconnected"
         /\ ~sseStarted'
         /\ store'.sessions = store.sessions
         /\ store'.status = store.status]_vars

\* ---- the async iterator ------------------------------------------------
\* The generator runs from one suspension to the next: "first" is the yield
\* of the current state, before the subscription; "yield" a yield of the
\* loop; "waiting" the await of the promise whose resolver the callback
\* holds (resolveNext is set exactly there).

\* The callback the iterator subscribes to the store.
IteratorListener == 1

\* A state is yielded to the consumer.
yield(state) == Append(yielded, state)

\* The consumer calls next().
Pull ==
    /\ iterator \in {"new", "first", "yield"}
    /\ IF iterator = "new"
       THEN /\ yielded' = yield(getState(store))
            /\ iterator' = "first"
            /\ UNCHANGED <<queue, listeners>>
       ELSE /\ listeners' = listeners \cup {IteratorListener}
            /\ IF iterator = "yield" /\ Len(queue) > 0
               THEN /\ yielded' = yield(Head(queue))
                    /\ queue' = Tail(queue)
                    /\ iterator' = "yield"
               ELSE /\ iterator' = "waiting"
                    /\ UNCHANGED <<queue, yielded>>
    /\ UNCHANGED <<store, notifyCount, observed, nCalls, history, notifications,
                   bootstrap, sseStarted, disposed, notStream>>

\* The store is mutated and notifies its subscribers; the iterator's callback
\* resolves the pending promise, which makes the generator yield the state,
\* or queues the state.
IteratorMutation(s) ==
    LET st == upsertSession(store, s) IN
    /\ nCalls < MaxCalls
    /\ store' = st
    /\ nCalls' = nCalls + 1
    /\ notifyCount' = [l \in ListenerIds |->
                          IF notified(st, l) THEN notifyCount[l] + 1 ELSE notifyCount[l]]
    /\ observed' = [l \in ListenerIds |->
                       IF notified(st, l) THEN getState(st) ELSE observed[l]]
    /\ notifications' = IF iterator \in {"first", "waiting", "yield"}
                        THEN Append(notifications, getState(st)) ELSE notifications
    /\ IF ~notified(st, IteratorListener)
       THEN UNCHANGED <<iterator, queue, yielded>>
       ELSE IF iterator = "waiting"
       THEN /\ yielded' = yield(getState(st))
            /\ iterator' = "yield"
            /\ UNCHANGED queue
       ELSE /\ queue' = Append(queue, getState(st))
            /\ UNCHANGED <<iterator, yielded>>
    /\ UNCHANGED <<listeners, history, bootstrap, sseStarted, disposed, notStream>>

\* The consumer ends the iteration at a value it was given (leaving its
\* for await loop calls return()): the finally block unsubscribes.
Return ==
    /\ iterator \in {"first", "yield"}
    /\ iterator' = "done"
    /\ listeners' = listeners \ {IteratorListener}
    /\ UNCHANGED <<store, notifyCount, observed, nCalls, history, queue, yielded,
                   notifications, bootstrap, sseStarted, disposed, notStream>>

IteratorNext ==
    \/ Pull
    \/ \E s \in [id : {1, 2}, updated : {1, 2}] : IteratorMutation(s)
    \/ Return

SpecIterator == DisposeInit /\ [][IteratorNext]_vars

\* C36: the iterator yields the state at its first pull and then every
\* notification of the store since, once each and in order: what was
\* yielded after the first state, followed by what is queued, is what the
\* store has notified; and an ended iterator is not subscribed.
C36_IteratorSeesEveryNotification ==
    /\ iterator # "new" => Tail(yielded) \o queue = notifications
    /\ iterator = "done" => IteratorListener \notin listeners

(***************************************************************************)
(* Part 10: the watch command (apps/swarm-cli/src/commands/watch.ts)        *)
(*                                                                         *)
(* A run loads the cursor file, resumes the stream of Part 2 from it and,   *)
(* for each event, writes it to the output and then saves its offset.       *)
(* SIGINT exits the process where it is.                                    *)
(***************************************************************************)
MaxRuns == 2

cursorRest == <<cursorRows, latestSaved, lastOp, prevOp, nCursorOps>>
notWatching == <<storeVars, sseVars, retryVars, mergeVars, logVars, routeVars, streamVars, poolVars, hookVars, atomVars>>

\* The backends of the runs: one server with one session.
WatchSnapshots == {<<ServerOne>>}

\* The event the command handles next.
nextEvent == emitted[handled + 1]

\* What tells two events apart, their offsets aside.
identity(event) == [type |-> event.type, payload |-> event.payload]

WatchInit ==
    /\ StoreStart
    /\ IdleExcept("watch")
    /\ WatchIdle

\* run(): the cursor file is loaded and resumeEvents is called with it.
WatchStart ==
    /\ watching = "stopped"
    /\ runs < MaxRuns
    /\ runs' = runs + 1
    /\ watching' = "running"
    /\ handled' = 0
    /\ savedOffset' = cursorFile
    /\ rpc' = "catchUp"
    /\ emitted' = <<>>
    /\ offsetCounter' = <<0>>
    /\ response' = [events |-> <<>>, nextOffset |-> <<>>, upToDate |-> FALSE]
    /\ tailFrom' = <<>>
    /\ tailed' = <<>>
    /\ subscribed' = FALSE
    /\ UNCHANGED <<liveSeen, written, occurredWhileStopped, cursorFile, cursorRest, notWatching>>

\* The callback of Stream.runForEach, up to its await: write(output, event).
WatchWrite ==
    /\ watching = "running"
    /\ handled < Len(emitted)
    /\ written' = Append(written, nextEvent)
    /\ watching' = "saving"
    /\ UNCHANGED <<runs, handled, occurredWhileStopped, resumeVars, cursorFile, cursorRest,
                   notWatching>>

\* The callback's saveCursor(options.cursorFile, event.offset) has completed.
WatchSave ==
    /\ watching = "saving"
    /\ cursorFile' = nextEvent.offset
    /\ handled' = handled + 1
    /\ watching' = "running"
    /\ UNCHANGED <<runs, written, occurredWhileStopped, resumeVars, cursorRest, notWatching>>

\* SIGINT: process.exit(0).  A writeFile that was under way has either
\* happened or not.
Sigint(saved) ==
    /\ watching # "stopped"
    /\ watching' = "stopped"
    /\ rpc' = "idle"
    /\ subscribed' = FALSE
    /\ cursorFile' = IF watching = "saving" /\ saved
                     THEN nextEvent.offset ELSE cursorFile
    /\ UNCHANGED <<runs, handled, written, occurredWhileStopped, savedOffset, emitted,
                   offsetCounter, liveSeen, response, tailFrom, tailed, cursorRest,
                   notWatching>>

\* A backend publishes an event while no watch process runs.
EventWhileStopped(type) ==
    /\ watching = "stopped"
    /\ runs > 0
    /\ liveSeen < MaxLive
    /\ recognized(type)
    /\ liveSeen' = liveSeen + 1
    /\ occurredWhileStopped' =
           occurredWhileStopped \cup {[type |-> type, payload |-> [id |-> liveSeen + 1]]}
    /\ UNCHANGED <<watching, runs, handled, written, rpc, savedOffset, emitted,
                   offsetCounter, response, tailFrom, tailed, subscribed, cursorFile,
                   cursorRest, notWatching>>

WatchNext ==
    \/ WatchStart
    \/ \E servers \in WatchSnapshots : ResumeCatchUp(servers)
    \/ \E servers \in WatchSnapshots : ResumeTail(servers)
    \/ \E type \in LiveTypes : TailEvent(type)
    \/ WatchWrite
    \/ WatchSave
    \/ \E saved \in BOOLEAN : Sigint(saved)
    \/ \E type \in LiveTypes : EventWhileStopped(type)

SpecWatch == WatchInit /\ [][WatchNext]_vars

\* The running command has caught up and handled all its stream has emitted.
caughtUp == watching = "running" /\ rpc = "live" /\ handled = Len(emitted)

\* C37: between events and after an exit the cursor file holds the offset of
\* the event written last; a restarted command writes no event it has
\* written before; and once it has caught up it has written every event
\* that occurred while it was not running.
C37_CursorResumesExactly ==
    /\ (watching # "saving" /\ written # <<>>) =>
           cursorFile = written[Len(written)].offset
    /\ \A i \in 1..Len(written) : \A j \in 1..Len(written) :
           i < j => identity(written[i]) # identity(written[j])
    /\ caughtUp =>
           \A e \in occurredWhileStopped :
               \E i \in 1..Len(written) : identity(written[i]) = e

(***************************************************************************)
(* Part 11: promiseAllSettledLimit and its caller discoverLocalServers      *)
(* (the servers route of the web app)                                       *)
(*                                                                         *)
(* min(limit, tasks.length) workers share one index.  A worker runs from    *)
(* one await to the next without interruption: it takes the next index,     *)
(* calls the task, and is resumed when its promise settles.  Array.from     *)
(* calls every worker once, in order, so when promiseAllSettledLimit first  *)
(* awaits, worker w awaits task w.                                          *)
(***************************************************************************)
MaxTasks == 3
MaxLimit == 2

TaskOutcomes == {"server 1", "server 2", "null", "reject"}

\* discoverLocalServers has not returned.
NotReturned == <<"pending">>

\* A slip: a loop over the indexes, which also meets the indexes never assigned.
isServerByIndex(entry) == entry # "null"

\* results.filter((s) => s !== null): filter skips the indexes never assigned.
isServer(entry) == entry \notin {"null", "hole"}

PoolInit ==
    /\ StoreStart
    /\ IdleExcept("pool")
    /\ tasks \in UNION {[1..n -> TaskOutcomes] : n \in 0..MaxTasks}
    /\ limit \in 1..MaxLimit
    /\ index = Min(limit, Len(tasks))
    /\ worker = [w \in 1..Min(limit, Len(tasks)) |-> w]
    /\ taskCalls = [i \in 1..Len(tasks) |-> IF i <= Min(limit, Len(tasks)) THEN 1 ELSE 0]
    /\ settled = {}
    /\ resultsArray = [i \in 1..Len(tasks) |-> "hole"]
    /\ returned = NotReturned

\* The task worker w awaits settles; the worker stores a fulfilled result,
\* swallows a rejection, and goes round its loop.
TaskSettles(w) ==
    /\ w \in DOMAIN worker
    /\ worker[w] # 0
    /\ LET currentIndex == worker[w] IN
       /\ settled' = settled \cup {currentIndex}
       /\ resultsArray' = IF tasks[currentIndex] = "reject" THEN resultsArray
                          ELSE [resultsArray EXCEPT ![currentIndex] = tasks[currentIndex]]
       /\ IF index < Len(tasks)
          THEN /\ index' = index + 1
               /\ worker' = [worker EXCEPT ![w] = index + 1]
               /\ taskCalls' = [taskCalls EXCEPT ![index + 1] = @ + 1]
          ELSE /\ worker' = [worker EXCEPT ![w] = 0]
               /\ UNCHANGED <<index, taskCalls>>
    /\ UNCHANGED <<tasks, limit, returned, notPool>>

\* Every worker has left its loop: Promise.all resolves, the results are
\* returned and discoverLocalServers filters them.
PoolReturns ==
    /\ returned = NotReturned
    /\ \A w \in DOMAIN worker : worker[w] = 0
    /\ returned' = SelectSeq(resultsArray, isServer)
    /\ UNCHANGED <<tasks, limit, index, worker, taskCalls, settled, resultsArray, notPool>>

PoolNext ==
    \/ \E w \in 1..MaxLimit : TaskSettles(w)
    \/ PoolReturns

SpecPool == PoolInit /\ [][PoolNext]_vars

inFlight == {i \in 1..Len(tasks) : taskCalls[i] > 0 /\ i \notin settled}

\* C38: every task is started at most once, and exactly once by the time
\* the call returns; no more than limit tasks are in flight; a fulfilled
\* result is at its task's index; the call returns once all tasks have
\* settled, rejected ones included; and the list discovery returns holds the
\* servers of the fulfilled tasks, in order, and nothing else.
C38_BoundedPool ==
    /\ \A i \in 1..Len(tasks) : taskCalls[i] <= 1
    /\ Cardinality(inFlight) <= limit
    /\ \A i \in settled : tasks[i] # "reject" => resultsArray[i] = tasks[i]
    /\ settled = 1..Len(tasks) => \A w \in DOMAIN worker : worker[w] = 0
    /\ returned # NotReturned =>
           /\ \A i \in 1..Len(tasks) : taskCalls[i] = 1 /\ i \in settled
           /\ returned = SelectSeq(tasks, LAMBDA t : t \notin {"null", "reject"})

\* The call has returned a server although a task before it rejected, with
\* more tasks than the limit.
C38_Witness ==
    /\ returned # NotReturned
    /\ Len(tasks) > limit
    /\ limit > 1
    /\ \E i, j \in 1..Len(tasks) : i < j /\ tasks[i] = "reject" /\ tasks[j] \notin {"null", "reject"}
    /\ Len(returned) >= 1

(***************************************************************************)
(* Part 12: the useMessages hook                                           *)
(*                                                                         *)
(* The hook subscribes three callbacks (message.created, message.updated,  *)
(* message.part.updated) and each writes to the hook store's messages,     *)
(* which are kept per session id.  Message ids and part ids are compared   *)
(* as the numbers their strings end in ("msg-001", "part-003").            *)
(***************************************************************************)

\* The session the hook was mounted for, and another one.
sessionId == "session-123"
HookSessions == {"session-123", "different-session"}

\* The backend's ids are unique: a message belongs to one session.
HookMessageIds == {1, 2, 3}
sessionOfMessage(id) == IF id = 3 THEN "different-session" ELSE sessionId

HookPartIds == {1, 2}
HookTexts == {"Hello", "Hello world"}

\* The info of a message event; a message enters the store without parts.
HookInfos ==
    {[id |-> id, sessionID |-> sessionOfMessage(id), role |-> role, parts |-> <<>>] :
        id \in HookMessageIds, role \in {"user"}}

\* The part of a message.part.updated event.
HookParts ==
    {[id |-> id, sessionID |-> sessionOfMessage(m), messageID |-> m, text |-> text] :
        id \in HookPartIds, m \in HookMessageIds, text \in HookTexts}

\* store.addMessage: the message joins its session's array, which stays
\* sorted by id.
addMessage(ms, message) ==
    [ms EXCEPT ![message.sessionID] = sortById(Append(ms[message.sessionID], message))]

\* store.updateMessage: the updater is applied to the session's message with
\* this id; nothing happens when there is none.
updateMessage(ms, sid, id, updater(_)) ==
    [ms EXCEPT ![sid] =
        [i \in DOMAIN ms[sid] |-> IF ms[sid][i].id = id THEN updater(ms[sid][i]) ELSE ms[sid][i]]]

\* Array.prototype.findIndex on a part id (0 where JavaScript gives -1).
findIndex(parts, id) ==
    IF \E i \in DOMAIN parts : parts[i].id = id
    THEN CHOOSE i \in DOMAIN parts : parts[i].id = id /\ \A j \in 1..(i - 1) : parts[j].id # id
    ELSE 0

\* A plausible slip: a re-delivered part is pushed again instead of replaced.
partUpdaterPushes(draft, part) ==
    [draft EXCEPT !.parts = sortById(Append(draft.parts, part))]

\* The updater of the message.part.updated callback: replace the part with
\* this id, or push the part and sort the array by id.
partUpdater(draft, part) ==
    LET parts == draft.parts
        partIndex == findIndex(parts, part.id)
    IN IF partIndex >= 1
       THEN [draft EXCEPT !.parts = [parts EXCEPT ![partIndex] = part]]
       ELSE [draft EXCEPT !.parts = sortById(Append(parts, part))]

\* Object.assign(draft, messageData): the info's own fields overwrite the
\* draft's; an info carries no parts, so the draft keeps its own.
assign(draft, messageData) ==
    [draft EXCEPT !.sessionID = messageData.sessionID, !.role = messageData.role]

\* Before the first event.
NoHookEvent == [type |-> "none", sessionID |-> sessionId, id |-> 0]

HookInit ==
    /\ StoreStart
    /\ IdleExcept("hook")
    /\ \E other \in SUBSET {m \in HookInfos : m.sessionID # sessionId} :
        hookMessages = [s \in HookSessions |->
            IF s = sessionId THEN <<>>
            ELSE sortById(CHOOSE q \in [1..Cardinality(other) -> other] :
                              \A i, j \in 1..Cardinality(other) : i # j => q[i] # q[j])]
    /\ delivered = [k \in HookMessageIds \X HookPartIds |-> "none"]
    /\ hookEvent = NoHookEvent

\* The message.created callback.
MessageCreated(messageData) ==
    /\ hookEvent' = [type |-> "message.created", sessionID |-> messageData.sessionID,
                     id |-> messageData.id]
    /\ IF messageData.sessionID = sessionId
       THEN LET existingMessages == hookMessages[sessionId]
                exists == \E i \in DOMAIN existingMessages : existingMessages[i].id = messageData.id
            IN hookMessages' = IF ~exists THEN addMessage(hookMessages, messageData)
                               ELSE hookMessages
       ELSE UNCHANGED hookMessages
    /\ UNCHANGED <<delivered, notHook>>

\* The message.updated callback.
MessageUpdated(messageData) ==
    /\ hookEvent' = [type |-> "message.updated", sessionID |-> messageData.sessionID,
                     id |-> messageData.id]
    /\ IF messageData.sessionID = sessionId
       THEN LET updater(draft) == assign(draft, messageData)
            IN hookMessages' = updateMessage(hookMessages, sessionId, messageData.id, updater)
       ELSE UNCHANGED hookMessages
    /\ UNCHANGED <<delivered, notHook>>

\* The message.part.updated callback.
MessagePartUpdated(part) ==
    /\ hookEvent' = [type |-> "message.part.updated", sessionID |-> part.sessionID,
                     id |-> part.messageID]
    /\ IF part.sessionID = sessionId
       THEN LET updater(draft) == partUpdater(draft, part)
            IN /\ hookMessages' = updateMessage(hookMessages, sessionId, part.messageID, updater)
               /\ delivered' = [delivered EXCEPT ![<<part.messageID, part.id>>] = part.text]
       ELSE UNCHANGED <<hookMessages, delivered>>
    /\ UNCHANGED notHook

HookNext ==
    \/ \E messageData \in HookInfos : MessageCreated(messageData)
    \/ \E messageData \in HookInfos : MessageUpdated([messageData EXCEPT !.role = "assistant"])
    \/ \E part \in HookParts : MessagePartUpdated(part)

SpecHook == HookInit /\ [][HookNext]_vars

\* Every message of the hook store, of every session.
storedMessages == UNION {{hookMessages[s][i] : i \in DOMAIN hookMessages[s]} : s \in HookSessions}

\* C39: in the hook store, whatever events the hook received, the parts of
\* every message are sorted ascending by part id without a repeated id and
\* each part is the payload delivered last for that message and part id; a
\* message.created event for an id the store already holds adds nothing;
\* and an event of another session than the hook's leaves the store as it
\* was.
C39_HookPartsSortedAndDeduplicated ==
    [][/\ \A m \in storedMessages :
            /\ \A i, j \in DOMAIN m.parts : i < j => m.parts[i].id < m.parts[j].id
            /\ \A i \in DOMAIN m.parts :
                /\ m.parts[i].messageID = m.id
                /\ m.parts[i].text = delivered[<<m.id, m.parts[i].id>>]
       /\ \A s \in HookSessions : \A i, j \in DOMAIN hookMessages'[s] :
            i < j => hookMessages'[s][i].id < hookMessages'[s][j].id
       /\ (/\ hookEvent'.type = "message.created"
           /\ \E m \in storedMessages : m.id = hookEvent'.id)
          => hookMessages' = hookMessages
       /\ hookEvent'.sessionID # sessionId => hookMessages' = hookMessages]_vars

\* Two parts of one message arrived in descending order of id and the first
\* of them was delivered again with another payload; a message.created
\* event for a stored id came last.
C39_Witness ==
    /\ \E m \in storedMessages :
        /\ Len(m.parts) = 2
        /\ m.parts[1].text = "Hello world"
    /\ hookEvent.type = "message.created"
    /\ \E m \in storedMessages : m.id = hookEvent.id /\ m.role = "assistant"

(***************************************************************************)
(* Part 13: the servers atoms of the web app                               *)
(*                                                                         *)
(* serversAtom holds the Result of a stream that runs discoverServers      *)
(* every five seconds; currentServerAtom is a map of that Result.          *)
(***************************************************************************)

\* The longest list discovery returns.
MaxServers == 3

DEFAULT_SERVER == [port |-> 4056, directory |-> "", url |-> "http://localhost:4056"]

\* A server's url is made from its port.
urlOf(port) == IF port = DEFAULT_SERVER.port THEN DEFAULT_SERVER.url ELSE "http://localhost:4057"

\* The servers discovery can list: on the default port or another one, with
\* a project directory or without.
ServerInfos ==
    {[port |-> port, directory |-> directory, url |-> urlOf(port)] :
        port \in {DEFAULT_SERVER.port, DEFAULT_SERVER.port + 1}, directory \in {"", "/project", "/other"}}

DiscoverOutcomes == UNION {[1..n -> ServerInfos] : n \in 0..MaxServers}

\* A plausible slip: the discovered list is returned as it is.
discoverServersAsIs(servers) == servers

\* discoverServers, after discovery.discover() returned these servers.
discoverServers(servers) ==
    IF Len(servers) = 0 THEN <<DEFAULT_SERVER>>
    ELSE LET hasDefault == \E i \in DOMAIN servers :
                 /\ servers[i].port = DEFAULT_SERVER.port
                 /\ servers[i].directory = DEFAULT_SERVER.directory
         IN IF hasDefault THEN servers ELSE <<DEFAULT_SERVER>> \o servers

\* Array.prototype.find on a non-empty directory: the first such server.
serverWithDir(servers) ==
    LET found == {i \in DOMAIN servers : servers[i].directory # ""} IN
    IF found = {} THEN <<>>
    ELSE <<servers[CHOOSE i \in found : \A j \in found : i <= j]>>

selectBestServer(servers) ==
    IF serverWithDir(servers) # <<>> THEN serverWithDir(servers)[1]
    ELSE IF Len(servers) > 0 THEN servers[1]
    ELSE DEFAULT_SERVER

\* The function mapped over serversAtom by makeCurrentServerAtom.
currentServerOf(result) ==
    IF result._tag = "Success"
    THEN IF Len(result.value) > 0 THEN selectBestServer(result.value) ELSE DEFAULT_SERVER
    ELSE DEFAULT_SERVER

Success(value) == [_tag |-> "Success", value |-> value]

\* The atom before the first poll has answered: the Result is Initial, or it
\* is the Success of the initialValue, still waiting.
AtomInit ==
    /\ StoreStart
    /\ IdleExcept("atom")
    /\ serversResult \in {[_tag |-> "Initial", value |-> <<>>], Success(<<DEFAULT_SERVER>>)}
    /\ currentServer = currentServerOf(serversResult)
    /\ discovered = [returned |-> FALSE, servers |-> <<>>]

\* One poll of the stream: discover() returns a list.
Poll(servers) ==
    /\ serversResult._tag # "Failure"
    /\ discovered' = [returned |-> TRUE, servers |-> servers]
    /\ serversResult' = Success(discoverServers(servers))
    /\ currentServer' = currentServerOf(serversResult')
    /\ UNCHANGED notAtom

\* One poll of the stream: discover() does not return; the stream fails and
\* polls no more.
PollFails ==
    /\ serversResult._tag # "Failure"
    /\ discovered' = [returned |-> FALSE, servers |-> <<>>]
    /\ serversResult' = [_tag |-> "Failure", value |-> <<>>]
    /\ currentServer' = currentServerOf(serversResult')
    /\ UNCHANGED notAtom

AtomNext ==
    \/ \E servers \in DiscoverOutcomes : Poll(servers)
    \/ PollFails

SpecAtom == AtomInit /\ [][AtomNext]_vars

\* C40: a list held by serversAtom is never empty and contains the default
\* server, whatever the last poll's discovery returned; the current server
\* is the first listed server with a non-empty directory, else the first
\* listed server; and it is the default server while serversAtom holds no
\* Success (discovery is loading or has failed).
C40_DefaultServerAlwaysListed ==
    /\ serversResult._tag = "Success" =>
        LET list == serversResult.value
            withDir == {i \in DOMAIN list : list[i].directory # ""}
        IN /\ Len(list) > 0
           /\ \E i \in DOMAIN list : list[i] = DEFAULT_SERVER
           /\ discovered.returned =>
                \A i \in DOMAIN discovered.servers :
                    \E j \in DOMAIN list : list[j] = discovered.servers[i]
           /\ IF withDir # {}
              THEN \E i \in withDir : currentServer = list[i] /\ \A j \in withDir : i <= j
              ELSE currentServer = list[1]
    /\ serversResult._tag # "Success" => currentServer = DEFAULT_SERVER

\* A poll returned two servers, neither the default and the first without a
\* directory: the list starts with the default server and the current server
\* is the discovered server that has a directory.
C40_Witness ==
    /\ discovered.returned
    /\ Len(discovered.servers) = 2
    /\ discovered.servers[1].directory = ""
    /\ discovered.servers[1].port # DEFAULT_SERVER.port
    /\ serversResult._tag = "Success"
    /\ serversResult.value[1] = DEFAULT_SERVER
    /\ currentServer = discovered.servers[2]
    /\ currentServer.directory # ""

====
